---- MODULE Spec2Model ----
(***************************************************************************)
(* A model of the YouTube Music -> Last.fm scrobbler (scrobble_oracle.py). *)
(*                                                                         *)
(* Text is modelled as sequences of one-character strings, so that key     *)
(* formatting ("{track_id}_{timestamp}") and prefix tests (startswith) are *)
(* computed character by character, as Python does.                        *)
(*                                                                         *)
(* The specifications:                                                     *)
(*   Spec          one or more runs of main() against the persisted store; *)
(*   SpecPure      the pure functions applied to inputs from small sets;   *)
(*   SpecScrobble  scrobble_track applied to drawn play records;           *)
(*   SpecText      the text cleanup functions applied to drawn texts;      *)
(*   SpecManager   history_manager's cleanup command;                      *)
(*   SpecRerun     a run of main() followed by a later run;                *)
(*   SpecFaulty    a run of main() whose store reads and writes can fail;  *)
(*   SpecEpoch     runs of main() with a wall clock next to the epoch.     *)
(***************************************************************************)
EXTENDS Integers, Sequences, FiniteSets, TLC

VARIABLES
    clock,               \* int(time.time()): the wall clock, in epoch seconds
    file,                \* SCROBBLE_HISTORY_FILE: [status, data]
    history_txt,         \* HISTORY_FILE: the legacy "last scrobbled id" file
    pc,                  \* where main() stands: "idle", "loop", "finish", "done"
    ytmusic_history,     \* main's ytmusic_history (newest first)
    scrobble_history,    \* main's in-memory scrobble_history (after cleanup)
    current_time,        \* find_tracks_to_scrobble's current_time
    decisions,           \* one record per iteration of find_tracks_to_scrobble's loop
    tracks_to_scrobble,  \* the plan returned by find_tracks_to_scrobble
    i,                   \* main's loop index into tracks_to_scrobble (1-based)
    calls,               \* the scrobble_track calls main has made in this run
    submitted,           \* what the Last.fm network accepted (network.scrobble returned)
    successful_scrobbles,\* main's counter
    most_recent_track_id,\* main's most_recent_track_id (<<>> for None)
    exit_code,           \* the run's exit status: "none", "ok" (return) or "error" (sys.exit(1))
    file_before,         \* the persisted store when the current run started
    runs,                \* number of runs started
    fetched,             \* what get_listening_history gave this run: "none" (not
                         \* called yet), "empty" ([]), "failed" (None) or "history"
    previous,            \* SpecRerun: what the run before this one saw and did
    fn,                  \* SpecPure: the function last applied
    args,                \* SpecPure: its arguments
    result               \* SpecPure: its result

vars == <<clock, file, history_txt, pc, ytmusic_history, scrobble_history,
          current_time, decisions, tracks_to_scrobble, i, calls, submitted,
          successful_scrobbles, most_recent_track_id, exit_code, file_before,
          runs, fetched, previous, fn, args, result>>

mainVars == <<clock, file, history_txt, pc, ytmusic_history, scrobble_history,
              current_time, decisions, tracks_to_scrobble, i, calls, submitted,
              successful_scrobbles, most_recent_track_id, exit_code, file_before,
              runs, fetched, previous>>

pureVars == <<fn, args, result>>

(***************************************************************************)
(* Bounds of the model.                                                    *)
(***************************************************************************)
\* the wall clock when the first run starts
NowBase == 1700000000
\* longest source history get_history returns
MaxHist == 2
\* number of runs of main()
MaxRuns == 2
\* most entries in an initial (or drawn) store
MaxStore == 2
\* longest drawn textual duration, in characters
MaxDurLen == 5
\* most tracks on a drawn page of search results
MaxCands == 3

(***************************************************************************)
(* Program constants.                                                      *)
(***************************************************************************)
TWO_WEEKS_SECONDS == 14 * 24 * 60 * 60
\* find_tracks_to_scrobble: proposals are spaced 2 minutes apart
SPACING_SECONDS == 120
\* can_scrobble_track: the buffer added to the track length
GAP_BUFFER_SECONDS == 30
\* get_track_duration_seconds: the default duration
DEFAULT_DURATION == 210
\* main: time.sleep(2) between scrobbles
SLEEP_SECONDS == 2
\* limit=15 passed to search_lastfm_tracks
SEARCH_LIMIT == 15
\* similarity of a "good" candidate
GOOD_SIMILARITY == 80
\* similarity below which the best available candidate is not used
REASONABLE_SIMILARITY == 60

(***************************************************************************)
(* Text helpers.                                                           *)
(***************************************************************************)
\* x evaluated once and handed to F, as an assignment to a local does
Let(x, F(_)) == CHOOSE r \in {F(v) : v \in {x}} : TRUE

Digits == <<"0", "1", "2", "3", "4", "5", "6", "7", "8", "9">>

DigitChars == {Digits[d] : d \in 1..10}

DigitValue(c) == (CHOOSE d \in 1..10 : Digits[d] = c) - 1

\* str(n) for an int, as the f-string formats it
RECURSIVE IntToStr(_)
IntToStr(n) ==
    IF n < 0 THEN <<"-">> \o IntToStr(-n)
    ELSE IF n < 10 THEN <<Digits[n + 1]>>
    ELSE IntToStr(n \div 10) \o <<Digits[(n % 10) + 1]>>

\* str.startswith
startswith(s, prefix) ==
    /\ Len(s) >= Len(prefix)
    /\ SubSeq(s, 1, Len(prefix)) = prefix

\* str.split(sep) for a one-character separator: the list of parts
RECURSIVE split(_, _)
split(s, sep) ==
    IF \A k \in 1..Len(s) : s[k] # sep THEN <<s>>
    ELSE LET k == CHOOSE k \in 1..Len(s) :
                     s[k] = sep /\ \A j \in 1..(k - 1) : s[j] # sep
         IN <<SubSeq(s, 1, k - 1)>> \o split(SubSeq(s, k + 1, Len(s)), sep)

\* int(text) succeeds on a non-empty run of decimal digits; other text of the
\* model's alphabet raises ValueError
int_ok(s) == Len(s) > 0 /\ \A k \in 1..Len(s) : s[k] \in DigitChars

RECURSIVE int_value(_)
int_value(s) ==
    IF Len(s) = 0 THEN 0
    ELSE 10 * int_value(SubSeq(s, 1, Len(s) - 1)) + DigitValue(s[Len(s)])

(***************************************************************************)
(* The data: source play records and persisted history entries.            *)
(***************************************************************************)
\* A play record of the source history.  duration = <<>> stands for a missing
\* or empty 'duration' text, duration_seconds = 0 for a missing, None or 0
\* 'duration_seconds' (the code tests both for truth only).
Track(videoId, artist, title, duration, duration_seconds) ==
    [videoId |-> videoId, artist |-> artist, title |-> title, album |-> "",
     duration |-> duration, duration_seconds |-> duration_seconds]

\* "3:30" as text and 210 as seconds, the way the source service reports both
TrackA == Track(<<"a">>, "Artist A", "Song A", <<"3", ":", "3", "0">>, 210)
\* a short clip with no textual duration: 60 seconds
TrackAB == Track(<<"a", "_", "b">>, "Artist B", "Song A B", <<>>, 60)
\* no duration information at all
TrackB == Track(<<"b">>, "Artist B", "Song B", <<>>, 0)

Tracks == {TrackA, TrackAB, TrackB}

\* the tracks the source history of a run is drawn from
HistoryTracks == {TrackA, TrackAB}

TrackIds == {t.videoId : t \in Tracks}

UrlPrefix == <<"https://music.youtube.com/watch?v=">>

EmptyStore == [k \in {} |-> 0]

(***************************************************************************)
(* get_track_duration_seconds                                              *)
(***************************************************************************)
\* the body of the try block (lines 564-583): the value it returns, or raises
\* = TRUE when int() raises ValueError on a component
\* variant: the hours of "H:MM:SS" are counted as minutes
duration_body_hours_as_minutes(track) ==
    LET parts == split(track.duration, ":")
    IN IF track.duration # <<>> /\ Len(parts) = 3
          /\ int_ok(parts[1]) /\ int_ok(parts[2]) /\ int_ok(parts[3])
       THEN [raises |-> FALSE,
             value |-> int_value(parts[1]) * 60 + int_value(parts[2]) * 60
                       + int_value(parts[3])]
       ELSE IF track.duration # <<>> /\ Len(parts) = 2
               /\ int_ok(parts[1]) /\ int_ok(parts[2])
       THEN [raises |-> FALSE,
             value |-> int_value(parts[1]) * 60 + int_value(parts[2])]
       ELSE IF track.duration # <<>> /\ Len(parts) \in {2, 3}
       THEN [raises |-> TRUE, value |-> 0]
       ELSE [raises |-> FALSE,
             value |-> IF track.duration_seconds # 0
                       THEN track.duration_seconds ELSE DEFAULT_DURATION]

duration_body(track) ==
    LET duration_text == track.duration
        parts == split(duration_text, ":")
        fallback == IF track.duration_seconds # 0
                    THEN track.duration_seconds
                    ELSE DEFAULT_DURATION
    IN IF duration_text # <<>> /\ Len(parts) = 2
       THEN IF int_ok(parts[1]) /\ int_ok(parts[2])
            THEN [raises |-> FALSE,
                  value |-> int_value(parts[1]) * 60 + int_value(parts[2])]
            ELSE [raises |-> TRUE, value |-> 0]           \* ValueError
       ELSE IF duration_text # <<>> /\ Len(parts) = 3
       THEN IF int_ok(parts[1]) /\ int_ok(parts[2]) /\ int_ok(parts[3])
            THEN [raises |-> FALSE,
                  value |-> int_value(parts[1]) * 3600 + int_value(parts[2]) * 60
                            + int_value(parts[3])]
            ELSE [raises |-> TRUE, value |-> 0]           \* ValueError
       ELSE [raises |-> FALSE, value |-> fallback]

\* variant: no except clause
get_track_duration_call_unhandled(track) == duration_body(track)

\* the call as a whole (lines 563-587): the except clause turns an exception
\* of the body into the default
get_track_duration_call(track) ==
    LET b == duration_body(track)
    IN IF b.raises
       THEN [raises |-> FALSE, value |-> DEFAULT_DURATION]
       ELSE b

get_track_duration_seconds(track) == get_track_duration_call(track).value

(***************************************************************************)
(* The persisted store: load, save, cleanup.                               *)
(***************************************************************************)
\* The store file is [status, data]:
\*   "valid"       it holds the JSON of the mapping data
\*   "absent"      SCROBBLE_HISTORY_FILE.exists() is false
\*   "unreadable"  it exists and open() raises (OSError)
\*   "corrupt"     it exists and json.load raises (JSONDecodeError)
\* the try body of load_scrobble_history (lines 123-130)
load_body(f) ==
    IF f.status = "absent" THEN [raises |-> FALSE, value |-> EmptyStore]
    ELSE IF f.status = "valid" THEN [raises |-> FALSE, value |-> f.data]
    ELSE [raises |-> TRUE, value |-> EmptyStore]

\* variant: without the except clause the exception leaves the function
load_scrobble_history_call_unhandled(f) == load_body(f)

\* load_scrobble_history with its except clause (lines 131-133): whether the
\* call raises, and the mapping it returns
load_scrobble_history_call(f) ==
    IF load_body(f).raises
    THEN [raises |-> FALSE, value |-> EmptyStore]
    ELSE load_body(f)

\* load_scrobble_history: the mapping of a valid file; {} when the file is
\* absent or cannot be read or parsed
load_scrobble_history(f) == load_scrobble_history_call(f).value

\* save_scrobble_history: the file holds the mapping it was given
save_scrobble_history(history) ==
    [status |-> "valid", data |-> history]

\* variant: the comparison with the cutoff is strict
cleanup_old_history_strict(history, now) ==
    LET cutoff_time == now - TWO_WEEKS_SECONDS
        kept == {k \in DOMAIN history : history[k].scrobbled_at > cutoff_time}
    IN [k \in kept |-> history[k]]

\* cleanup_old_history at wall-clock time now
cleanup_old_history(history, now) ==
    LET cutoff_time == now - TWO_WEEKS_SECONDS
        kept == {k \in DOMAIN history : history[k].scrobbled_at >= cutoff_time}
    IN [k \in kept |-> history[k]]

(***************************************************************************)
(* Keys and entries.                                                       *)
(***************************************************************************)
\* f"{track_id}_{timestamp}"
scrobble_key(track_id, timestamp) ==
    track_id \o <<"_">> \o IntToStr(timestamp)

\* add_to_scrobble_history's track_data
track_data(track, timestamp) ==
    [artist |-> track.artist, title |-> track.title, album |-> track.album,
     scrobbled_at |-> timestamp,
     duration_seconds |-> get_track_duration_seconds(track),
     youtube_url |-> UrlPrefix \o track.videoId]

\* the mapping after history[scrobble_key] = track_data
dict_set(history, key, value) ==
    [k \in DOMAIN history \cup {key} |-> IF k = key THEN value ELSE history[k]]

\* variant: the mapping is saved without the cleanup
add_to_scrobble_history_noprune(f, track, timestamp, now) ==
    save_scrobble_history(
        dict_set(load_scrobble_history(f),
                 scrobble_key(track.videoId, timestamp),
                 track_data(track, timestamp)))

\* add_to_scrobble_history at wall-clock time now: the file it leaves
add_to_scrobble_history(f, track, timestamp, now) ==
    LET history == load_scrobble_history(f)
        with_new == dict_set(history, scrobble_key(track.videoId, timestamp),
                             track_data(track, timestamp))
        cleaned_history == cleanup_old_history(with_new, now)
    IN save_scrobble_history(cleaned_history)

(***************************************************************************)
(* get_track_scrobble_timestamps and can_scrobble_track                    *)
(***************************************************************************)
\* sorted(): the values of the entries under the keys K, ascending, with
\* repetitions
RECURSIVE sorted_timestamps(_, _)
sorted_timestamps(history, K) ==
    IF K = {} THEN <<>>
    ELSE LET k == CHOOSE k \in K :
                    \A j \in K : history[k].scrobbled_at <= history[j].scrobbled_at
         IN <<history[k].scrobbled_at>> \o sorted_timestamps(history, K \ {k})

get_track_scrobble_timestamps(track_id, history) ==
    sorted_timestamps(history,
        {k \in DOMAIN history : startswith(k, track_id \o <<"_">>)})

abs(x) == IF x < 0 THEN -x ELSE x

\* the for loop of can_scrobble_track from position k on: 0 when no previous
\* timestamp is too close, else the position of the first that is
RECURSIVE first_too_close(_, _, _, _)
first_too_close(previous_timestamps, k, proposed_timestamp, min_gap_required) ==
    IF k > Len(previous_timestamps) THEN 0
    ELSE IF abs(proposed_timestamp - previous_timestamps[k]) < min_gap_required
    THEN k
    ELSE first_too_close(previous_timestamps, k + 1, proposed_timestamp,
                         min_gap_required)

\* variant: every proposal is accepted
can_scrobble_track_always(track, proposed_timestamp, history) ==
    [can |-> TRUE, reason |-> <<"No previous scrobbles found">>]

\* variant: a gap equal to the required gap is rejected too
can_scrobble_track_inclusive(track, proposed_timestamp, history) ==
    LET previous_timestamps ==
            get_track_scrobble_timestamps(track.videoId, history)
        min_gap_required == get_track_duration_seconds(track) + GAP_BUFFER_SECONDS
    IN [can |-> \A k \in 1..Len(previous_timestamps) :
                    abs(proposed_timestamp - previous_timestamps[k])
                        > min_gap_required,
        reason |-> <<"Sufficient gap from previous scrobbles">>]

can_scrobble_track(track, proposed_timestamp, history) ==
    LET track_duration == get_track_duration_seconds(track)
        previous_timestamps ==
            get_track_scrobble_timestamps(track.videoId, history)
        min_gap_required == track_duration + GAP_BUFFER_SECONDS
        bad == first_too_close(previous_timestamps, 1, proposed_timestamp,
                               min_gap_required)
    IN IF previous_timestamps = <<>>
       THEN [can |-> TRUE, reason |-> <<"No previous scrobbles found">>]
       ELSE IF bad # 0
       THEN [can |-> FALSE,
             reason |-> <<"Too close to previous scrobble",
                          abs(proposed_timestamp - previous_timestamps[bad]) \div 60,
                          min_gap_required \div 60>>]
       ELSE [can |-> TRUE,
             reason |-> <<"Sufficient gap from previous scrobbles",
                          Len(previous_timestamps)>>]

(***************************************************************************)
(* find_tracks_to_scrobble                                                 *)
(***************************************************************************)
\* variant: the history is processed newest first
not_reversed(s) == s

\* reversed(ytmusic_history)
reversed(s) == [k \in 1..Len(s) |-> s[Len(s) + 1 - k]]

\* variant: the spacing is counted from one record too many
proposed_timestamp_off_by_one(now, n, idx) == now - (n - idx) * SPACING_SECONDS

\* the proposed timestamp of the record at 0-based index idx of the reversed
\* history of length n
proposed_timestamp(now, n, idx) == now - (n - idx - 1) * SPACING_SECONDS

\* one record per iteration of the loop: the track, its proposed timestamp and
\* can_scrobble_track's verdict, each taken against the scrobble_history that
\* was passed in
find_decisions(history, store, now) ==
    [k \in 1..Len(history) |->
        LET track == reversed(history)[k]
            proposed == proposed_timestamp(now, Len(history), k - 1)
            verdict == can_scrobble_track(track, proposed, store)
        IN [track |-> track, proposed_timestamp |-> proposed,
            can_scrobble |-> verdict.can, reason |-> verdict.reason]]

\* tracks_to_scrobble: the accepted (track, timestamp) pairs, in loop order
RECURSIVE accepted_pairs(_, _)
accepted_pairs(ds, k) ==
    IF k > Len(ds) THEN <<>>
    ELSE (IF ds[k].can_scrobble
          THEN <<[track |-> ds[k].track, timestamp |-> ds[k].proposed_timestamp]>>
          ELSE <<>>) \o accepted_pairs(ds, k + 1)

find_tracks_to_scrobble(history, store, now) ==
    accepted_pairs(find_decisions(history, store, now), 1)

(***************************************************************************)
(* scrobble_track                                                          *)
(***************************************************************************)
\* What can happen inside one scrobble_track call:
\*   "matched"     find_best_track_match found a track; network.scrobble returned
\*   "cleaned"     no match; network.scrobble of the cleaned metadata returned
\*   "no_submit"   an exception before any network.scrobble call
\*   "submit_fail" network.scrobble raised
Outcomes == {"matched", "cleaned", "no_submit", "submit_fail"}

\* timestamp = custom_timestamp or int(time.time())
scrobble_timestamp(custom_timestamp, now) ==
    IF custom_timestamp # 0 THEN custom_timestamp ELSE now

\* variant: True is returned whatever happened
scrobble_track_always_true(outcome) == TRUE

\* scrobble_track's return value
scrobble_track(outcome) == outcome \in {"matched", "cleaned"}

(***************************************************************************)
(* The inputs of a run.                                                    *)
(***************************************************************************)
\* the source histories get_history can return, newest first
Histories == UNION {[1..n -> HistoryTracks] : n \in 0..MaxHist}

\* plays an earlier run may have recorded: one exactly at the retention
\* boundary of the first run, one a second past it, and two recent ones
PriorPlays ==
    {[track |-> TrackA,  timestamp |-> NowBase - TWO_WEEKS_SECONDS],
     [track |-> TrackAB, timestamp |-> NowBase - TWO_WEEKS_SECONDS - 1],
     [track |-> TrackA,  timestamp |-> NowBase - SPACING_SECONDS],
     [track |-> TrackAB, timestamp |-> NowBase - 2 * SPACING_SECONDS]}

\* the mapping an earlier run wrote for a set of plays
store_of(plays) ==
    LET keys == {scrobble_key(p.track.videoId, p.timestamp) : p \in plays}
    IN [k \in keys |->
           LET p == CHOOSE p \in plays :
                        scrobble_key(p.track.videoId, p.timestamp) = k
           IN track_data(p.track, p.timestamp)]

Stores == {store_of(P) : P \in {Q \in SUBSET PriorPlays : Cardinality(Q) <= MaxStore}}

\* the store file before the first run: written by an earlier run, absent, or
\* unreadable
InitFiles ==
    {[status |-> "valid", data |-> st] : st \in Stores}
    \cup {[status |-> "absent", data |-> EmptyStore],
          [status |-> "unreadable", data |-> EmptyStore],
          [status |-> "corrupt", data |-> EmptyStore]}

\* seconds between the starts of two runs (the scheduler's period)
RunGaps == {SPACING_SECONDS}

(***************************************************************************)
(* main()                                                                  *)
(***************************************************************************)
\* variant: without the early return an empty plan falls through the loop to
\* the exit status of lines 756-760, with no successful scrobble
empty_plan_exit_falls_through(plan) ==
    IF plan = <<>> THEN "error" ELSE "none"

\* `if not tracks_to_scrobble: return` (lines 724-726): the exit status main
\* has right after planning
empty_plan_exit(plan) ==
    IF plan = <<>> THEN "ok" ELSE "none"

\* lines 710-726: load, clean up, save if something was removed, plan.  An
\* exception that leaves load_scrobble_history ends main in the handler of
\* lines 768-770 (sys.exit(1)).  exit is the exit status main has right after
\* planning: "none" when it goes on to its loop.
main_prepare(f, history, now) ==
    Let(load_scrobble_history_call(f), LAMBDA call :
      IF call.raises
      THEN [file |-> f, scrobble_history |-> EmptyStore, decisions |-> <<>>,
            tracks_to_scrobble |-> <<>>, exit |-> "error"]
      ELSE
        Let(cleanup_old_history(call.value, now), LAMBDA cleaned_history :
        Let(find_tracks_to_scrobble(history, cleaned_history, now), LAMBDA plan :
          [file |-> IF Cardinality(DOMAIN cleaned_history)
                          # Cardinality(DOMAIN call.value)
                    THEN save_scrobble_history(cleaned_history)
                    ELSE f,
           scrobble_history |-> cleaned_history,
           decisions |-> find_decisions(history, cleaned_history, now),
           tracks_to_scrobble |-> plan,
           exit |-> empty_plan_exit(plan)])))

\* variant: a failed fetch ends the run with sys.exit(1)
no_history_exit_error_on_failure(outcome) ==
    IF outcome = "failed" THEN "error" ELSE "ok"

\* `if not ytmusic_history: return`, for [] and for None alike
no_history_exit(outcome) == "ok"

\* get_listening_history returned [] (no history) or None (ytmusic.get_history
\* raised): main returns before it loads the store
MainNoHistory ==
    /\ pc = "idle"
    /\ pc' = "done"
    /\ \E outcome \in {"empty", "failed"} :
         /\ fetched' = outcome
         /\ exit_code' = no_history_exit(outcome)
    /\ UNCHANGED <<clock, file, history_txt, ytmusic_history, scrobble_history,
                   current_time, decisions, tracks_to_scrobble, i, calls,
                   submitted, successful_scrobbles, most_recent_track_id,
                   file_before, runs, previous, fn, args, result>>

\* a non-empty history of which nothing can be scrobbled: main returns
MainNothingToScrobble ==
    /\ pc = "idle"
    /\ \E history \in Histories :
         \E m \in {main_prepare(file, history, clock)} :
            /\ history # <<>>
            /\ m.exit # "none"
            /\ ytmusic_history' = history
            /\ file' = m.file
            /\ scrobble_history' = m.scrobble_history
            /\ decisions' = m.decisions
            /\ tracks_to_scrobble' = m.tracks_to_scrobble
            /\ exit_code' = m.exit
    /\ fetched' = "history"
    /\ current_time' = clock
    /\ pc' = "done"
    /\ UNCHANGED <<clock, history_txt, i, calls, submitted, successful_scrobbles,
                   most_recent_track_id, file_before, runs, previous, fn, args, result>>

\* a non-empty history with a non-empty plan: main enters its loop
MainPlan ==
    /\ pc = "idle"
    /\ \E history \in Histories :
         \E m \in {main_prepare(file, history, clock)} :
            /\ history # <<>>
            /\ m.exit = "none"
            /\ ytmusic_history' = history
            /\ file' = m.file
            /\ scrobble_history' = m.scrobble_history
            /\ decisions' = m.decisions
            /\ tracks_to_scrobble' = m.tracks_to_scrobble
    /\ fetched' = "history"
    /\ current_time' = clock
    /\ pc' = "loop"
    /\ i' = 1
    /\ UNCHANGED <<clock, history_txt, calls, submitted, successful_scrobbles,
                   most_recent_track_id, exit_code, file_before, runs,
                   previous, fn, args, result>>

\* variant: the loop ends at the first failed pair
after_iteration_abort(ok, idx, n) == IF ok /\ idx < n THEN "loop" ELSE "finish"

\* the for loop's control after the iteration at 1-based position idx of a plan
\* of n pairs: the next pair, whatever scrobble_track returned, or the end
after_iteration(ok, idx, n) == IF idx < n THEN "loop" ELSE "finish"

\* one iteration of the loop of lines 732-750
ScrobbleStep ==
    /\ pc = "loop"
    /\ \E outcome \in Outcomes :
         LET pair == tracks_to_scrobble[i]
             ok == scrobble_track(outcome)
         IN /\ calls' = Append(calls,
                   [track |-> pair.track, timestamp |-> pair.timestamp,
                    outcome |-> outcome, result |-> ok, at |-> clock])
            /\ submitted' =
                   IF outcome \in {"matched", "cleaned"}
                   THEN Append(submitted,
                            [track_id |-> pair.track.videoId,
                             timestamp |-> scrobble_timestamp(pair.timestamp, clock),
                             via |-> outcome])
                   ELSE submitted
            /\ file' = IF ok
                       THEN add_to_scrobble_history(file, pair.track,
                                                    pair.timestamp, clock)
                       ELSE file
            /\ successful_scrobbles' =
                   IF ok THEN successful_scrobbles + 1 ELSE successful_scrobbles
            /\ most_recent_track_id' =
                   IF ok THEN pair.track.videoId ELSE most_recent_track_id
            /\ pc' = after_iteration(ok, i, Len(tracks_to_scrobble))
    /\ clock' = IF i < Len(tracks_to_scrobble)
                THEN clock + SLEEP_SECONDS      \* time.sleep(2)
                ELSE clock
    /\ i' = i + 1
    /\ UNCHANGED <<history_txt, ytmusic_history, scrobble_history, current_time,
                   decisions, tracks_to_scrobble, exit_code, file_before, runs,
                   fetched, previous, fn, args, result>>

\* lines 752-760: the legacy file and the exit status
MainFinish ==
    /\ pc = "finish"
    /\ history_txt' = IF most_recent_track_id # <<>>
                      THEN most_recent_track_id ELSE history_txt
    /\ exit_code' = IF successful_scrobbles > 0 THEN "ok" ELSE "error"
    /\ pc' = "done"
    /\ UNCHANGED <<clock, file, ytmusic_history, scrobble_history, current_time,
                   decisions, tracks_to_scrobble, i, calls, submitted,
                   successful_scrobbles, most_recent_track_id, file_before, runs,
                   fetched, previous, fn, args, result>>

\* the scheduler starts the script again
NextRun ==
    /\ pc = "done"
    /\ runs < MaxRuns
    /\ \E gap \in RunGaps : clock' = clock + gap
    /\ runs' = runs + 1
    /\ pc' = "idle"
    /\ ytmusic_history' = <<>>
    /\ scrobble_history' = EmptyStore
    /\ current_time' = 0
    /\ decisions' = <<>>
    /\ tracks_to_scrobble' = <<>>
    /\ i' = 0
    /\ calls' = <<>>
    /\ submitted' = <<>>
    /\ successful_scrobbles' = 0
    /\ most_recent_track_id' = <<>>
    /\ exit_code' = "none"
    /\ file_before' = file
    /\ fetched' = "none"
    /\ UNCHANGED <<file, history_txt, previous, fn, args, result>>

\* no run before this one is on record
NoPrevious ==
    [recorded |-> FALSE, ytmusic_history |-> <<>>, decisions |-> <<>>,
     all_succeeded |-> FALSE]

PureIdle ==
    /\ fn = "none"
    /\ args = <<>>
    /\ result = <<>>

Init ==
    /\ clock = NowBase
    /\ file \in InitFiles
    /\ history_txt = <<>>
    /\ pc = "idle"
    /\ ytmusic_history = <<>>
    /\ scrobble_history = EmptyStore
    /\ current_time = 0
    /\ decisions = <<>>
    /\ tracks_to_scrobble = <<>>
    /\ i = 0
    /\ calls = <<>>
    /\ submitted = <<>>
    /\ successful_scrobbles = 0
    /\ most_recent_track_id = <<>>
    /\ exit_code = "none"
    /\ file_before = file
    /\ runs = 1
    /\ fetched = "none"
    /\ previous = NoPrevious
    /\ PureIdle

Next ==
    \/ MainNoHistory
    \/ MainNothingToScrobble
    \/ MainPlan
    \/ ScrobbleStep
    \/ MainFinish
    \/ NextRun

Spec == Init /\ [][Next]_vars

(***************************************************************************)
(* SpecRerun: a run of main() and one later run, the first kept on record. *)
(***************************************************************************)
\* seconds from the start of the last step of a run to the start of the next
\* run: 2 minutes, 4 minutes, an hour
LaterGaps == {SPACING_SECONDS, 2 * SPACING_SECONDS, 30 * SPACING_SECONDS}

\* the scheduler starts the script once more; what the finished run saw and
\* decided, and whether every pair of its plan was submitted successfully, is
\* put on record
NextRunLater ==
    /\ pc = "done"
    /\ ~previous.recorded
    /\ \E gap \in LaterGaps : clock' = clock + gap
    /\ previous' = [recorded |-> TRUE, ytmusic_history |-> ytmusic_history,
                    decisions |-> decisions,
                    all_succeeded |->
                        /\ tracks_to_scrobble # <<>>
                        /\ Len(calls) = Len(tracks_to_scrobble)
                        /\ \A k \in 1..Len(calls) : calls[k].result]
    /\ runs' = runs + 1
    /\ pc' = "idle"
    /\ ytmusic_history' = <<>>
    /\ scrobble_history' = EmptyStore
    /\ current_time' = 0
    /\ decisions' = <<>>
    /\ tracks_to_scrobble' = <<>>
    /\ i' = 0
    /\ calls' = <<>>
    /\ submitted' = <<>>
    /\ successful_scrobbles' = 0
    /\ most_recent_track_id' = <<>>
    /\ exit_code' = "none"
    /\ file_before' = file
    /\ fetched' = "none"
    /\ UNCHANGED <<file, history_txt, fn, args, result>>

NextRerun ==
    \/ MainNoHistory
    \/ MainNothingToScrobble
    \/ MainPlan
    \/ ScrobbleStep
    \/ MainFinish
    \/ NextRunLater

\* the store file before the first run: absent, or holding one recent play
RerunFiles ==
    {[status |-> "absent", data |-> EmptyStore],
     [status |-> "valid",
      data |-> store_of({[track |-> TrackAB,
                          timestamp |-> NowBase - 2 * SPACING_SECONDS]})]}

InitRerun == Init /\ file \in RerunFiles

SpecRerun == InitRerun /\ [][NextRerun]_vars

(***************************************************************************)
(* SpecFaulty: one run of main() in which every read and every write of    *)
(* the store file may fail.                                                *)
(***************************************************************************)
\* what a read of the store file does: it works, or open() or json.load
\* raises although the file holds a mapping
LoadIO == {"ok", "error"}

\* what a write of the store file does: it works; open(..., 'w') raises and
\* the file stays as it was ("unopened"); open() has emptied the file and
\* json.dump or the close raises ("truncated")
SaveIO == {"ok", "unopened", "truncated"}

\* the file as a read finds it
file_as_read(f, io) ==
    IF io = "error" /\ f.status = "valid"
    THEN [status |-> "unreadable", data |-> f.data]
    ELSE f

\* load_scrobble_history when the read does io
load_scrobble_history_io(f, io) == load_scrobble_history(file_as_read(f, io))

\* save_scrobble_history when the write does io: the file it leaves (the
\* except clause of lines 142-143 logs the error and returns)
save_scrobble_history_io(f, history, io) ==
    IF io = "ok" THEN save_scrobble_history(history)
    ELSE IF io = "unopened" THEN f
    ELSE [status |-> "corrupt", data |-> EmptyStore]

\* add_to_scrobble_history when its read and its write do load_io and save_io
add_to_scrobble_history_io(f, track, timestamp, now, load_io, save_io) ==
    LET history == load_scrobble_history_io(f, load_io)
        with_new == dict_set(history, scrobble_key(track.videoId, timestamp),
                             track_data(track, timestamp))
        cleaned_history == cleanup_old_history(with_new, now)
    IN save_scrobble_history_io(f, cleaned_history, save_io)

\* lines 710-726 when the read and the write do load_io and save_io
main_prepare_io(f, history, now, load_io, save_io) ==
    Let(load_scrobble_history_io(f, load_io), LAMBDA loaded :
    Let(cleanup_old_history(loaded, now), LAMBDA cleaned_history :
    Let(find_tracks_to_scrobble(history, cleaned_history, now), LAMBDA plan :
      [file |-> IF Cardinality(DOMAIN cleaned_history)
                      # Cardinality(DOMAIN loaded)
                THEN save_scrobble_history_io(f, cleaned_history, save_io)
                ELSE f,
       scrobble_history |-> cleaned_history,
       decisions |-> find_decisions(history, cleaned_history, now),
       tracks_to_scrobble |-> plan,
       exit |-> empty_plan_exit(plan)])))

\* lines 704-726 for a non-empty history: main returns on an empty plan and
\* enters its loop otherwise
FaultyMainPrepare ==
    /\ pc = "idle"
    /\ \E history \in Histories, load_io \in LoadIO, save_io \in SaveIO :
         \E m \in {main_prepare_io(file, history, clock, load_io, save_io)} :
            /\ history # <<>>
            /\ ytmusic_history' = history
            /\ file' = m.file
            /\ scrobble_history' = m.scrobble_history
            /\ decisions' = m.decisions
            /\ tracks_to_scrobble' = m.tracks_to_scrobble
            /\ exit_code' = m.exit
            /\ pc' = IF m.exit = "none" THEN "loop" ELSE "done"
            /\ i' = IF m.exit = "none" THEN 1 ELSE i
    /\ fetched' = "history"
    /\ current_time' = clock
    /\ UNCHANGED <<clock, history_txt, calls, submitted, successful_scrobbles,
                   most_recent_track_id, file_before, runs, previous,
                   fn, args, result>>

\* one iteration of the loop of lines 732-750
FaultyScrobbleStep ==
    /\ pc = "loop"
    /\ \E outcome \in Outcomes, load_io \in LoadIO, save_io \in SaveIO :
         LET pair == tracks_to_scrobble[i]
             ok == scrobble_track(outcome)
         IN /\ ~ok => (load_io = "ok" /\ save_io = "ok")
            /\ calls' = Append(calls,
                   [track |-> pair.track, timestamp |-> pair.timestamp,
                    outcome |-> outcome, result |-> ok, at |-> clock])
            /\ submitted' =
                   IF outcome \in {"matched", "cleaned"}
                   THEN Append(submitted,
                            [track_id |-> pair.track.videoId,
                             timestamp |-> scrobble_timestamp(pair.timestamp, clock),
                             via |-> outcome])
                   ELSE submitted
            /\ file' = IF ok
                       THEN add_to_scrobble_history_io(file, pair.track,
                                pair.timestamp, clock, load_io, save_io)
                       ELSE file
            /\ successful_scrobbles' =
                   IF ok THEN successful_scrobbles + 1 ELSE successful_scrobbles
            /\ most_recent_track_id' =
                   IF ok THEN pair.track.videoId ELSE most_recent_track_id
            /\ pc' = after_iteration(ok, i, Len(tracks_to_scrobble))
    /\ clock' = IF i < Len(tracks_to_scrobble)
                THEN clock + SLEEP_SECONDS      \* time.sleep(2)
                ELSE clock
    /\ i' = i + 1
    /\ UNCHANGED <<history_txt, ytmusic_history, scrobble_history, current_time,
                   decisions, tracks_to_scrobble, exit_code, file_before, runs,
                   fetched, previous, fn, args, result>>

NextFaulty ==
    \/ MainNoHistory
    \/ FaultyMainPrepare
    \/ FaultyScrobbleStep
    \/ MainFinish

SpecFaulty == Init /\ [][NextFaulty]_vars

(***************************************************************************)
(* SpecEpoch: runs of main whose wall clock is so close to the epoch that  *)
(* the oldest track of a full source history is proposed at timestamp 0.   *)
(***************************************************************************)
\* current_time - (len(ytmusic_history) - i - 1) * 120 is 0 for i = 0
EpochNow == (MaxHist - 1) * SPACING_SECONDS

\* no store file, or one whose entry blocks the newest track
EpochFiles ==
    {[status |-> "absent", data |-> EmptyStore],
     [status |-> "valid",
      data |-> store_of({[track |-> TrackA, timestamp |-> EpochNow]})]}

InitEpoch ==
    /\ clock = EpochNow
    /\ file \in EpochFiles
    /\ history_txt = <<>>
    /\ pc = "idle"
    /\ ytmusic_history = <<>>
    /\ scrobble_history = EmptyStore
    /\ current_time = 0
    /\ decisions = <<>>
    /\ tracks_to_scrobble = <<>>
    /\ i = 0
    /\ calls = <<>>
    /\ submitted = <<>>
    /\ successful_scrobbles = 0
    /\ most_recent_track_id = <<>>
    /\ exit_code = "none"
    /\ file_before = file
    /\ runs = 1
    /\ fetched = "none"
    /\ previous = NoPrevious
    /\ PureIdle

SpecEpoch == InitEpoch /\ [][Next]_vars

(***************************************************************************)
(* Metadata cleanup: regular expressions and the cleanup functions.        *)
(*                                                                         *)
(* The regular expressions of the source use only \s*, \s+, \b, $, escaped *)
(* characters and literal characters; a pattern is compiled from the text  *)
(* of the source into a sequence of atoms and matched greedily, which for  *)
(* these patterns is what re does: no atom that follows \s* or \s+ can     *)
(* match a whitespace character.                                           *)
(***************************************************************************)
\* the characters of a string, as text
Chars(s) == [k \in 1..Len(s) |-> SubSeq(s, k, k)]

WhiteSpace == {" "}

UpperCase == Chars("ABCDEFGHIJKLMNOPQRSTUVWXYZ")

LowerCase == Chars("abcdefghijklmnopqrstuvwxyz")

UpperChars == {UpperCase[k] : k \in 1..Len(UpperCase)}

\* str.lower() of one character; also how re.IGNORECASE compares
lower_char(c) ==
    IF c \in UpperChars
    THEN LowerCase[CHOOSE k \in 1..Len(UpperCase) : UpperCase[k] = c]
    ELSE c

\* the characters \w matches
WordChars ==
    UpperChars \cup {LowerCase[k] : k \in 1..Len(LowerCase)}
               \cup DigitChars \cup {"_"}

\* \w
IsWordChar(c) == c \in WordChars

\* the positions of text that hold no whitespace
NonSpace(text) == {k \in 1..Len(text) : text[k] \notin WhiteSpace}

\* str.strip()
strip(text) ==
    Let(text, LAMBDA t :
        IF NonSpace(t) = {} THEN <<>>
        ELSE SubSeq(t, CHOOSE k \in NonSpace(t) : \A j \in NonSpace(t) : k <= j,
                       CHOOSE k \in NonSpace(t) : \A j \in NonSpace(t) : k >= j))

Atom(kind, ch) == [kind |-> kind, ch |-> ch]

\* the one character class of the source (line 348): a character that is
\* neither a word character, nor whitespace, nor an apostrophe or a hyphen
NotKeptClass == Chars("[^\\w\\s\\'-]")

not_kept_char(c) ==
    /\ ~IsWordChar(c)
    /\ c \notin WhiteSpace
    /\ c \notin {"'", "-"}

\* re.compile: the atoms of a regular expression given as text
RECURSIVE compile(_)
compile(rx) ==
    IF rx = <<>> THEN <<>>
    ELSE IF rx[1] = "["
    THEN <<Atom("not_kept", "")>> \o compile(SubSeq(rx, Len(NotKeptClass) + 1, Len(rx)))
    ELSE IF rx[1] = "\\" /\ rx[2] = "s"
    THEN <<Atom(IF rx[3] = "*" THEN "ws_star" ELSE "ws_plus", "")>>
         \o compile(SubSeq(rx, 4, Len(rx)))
    ELSE IF rx[1] = "\\" /\ rx[2] = "b"
    THEN <<Atom("boundary", "")>> \o compile(SubSeq(rx, 3, Len(rx)))
    ELSE IF rx[1] = "\\"
    THEN <<Atom("literal", rx[2])>> \o compile(SubSeq(rx, 3, Len(rx)))
    ELSE IF rx[1] = "$"
    THEN <<Atom("end", "")>> \o compile(Tail(rx))
    ELSE <<Atom("literal", rx[1])>> \o compile(Tail(rx))

\* the first position at or after p that holds no whitespace
skip_ws(text, p) ==
    CHOOSE q \in p..(Len(text) + 1) :
        /\ q = Len(text) + 1 \/ text[q] \notin WhiteSpace
        /\ \A r \in p..(q - 1) : text[r] \in WhiteSpace

word_at(text, p) == p >= 1 /\ p <= Len(text) /\ IsWordChar(text[p])

\* the position after the match of atoms[k..] that starts at position p of
\* text, 0 if there is none
RECURSIVE match_from(_, _, _, _, _)
match_from(atoms, k, text, p, ignorecase) ==
    IF k > Len(atoms) THEN p
    ELSE LET a == atoms[k]
         IN IF a.kind = "ws_star"
            THEN match_from(atoms, k + 1, text, skip_ws(text, p), ignorecase)
            ELSE IF a.kind = "ws_plus"
            THEN IF skip_ws(text, p) > p
                 THEN match_from(atoms, k + 1, text, skip_ws(text, p), ignorecase)
                 ELSE 0
            ELSE IF a.kind = "boundary"
            THEN IF word_at(text, p - 1) # word_at(text, p)
                 THEN match_from(atoms, k + 1, text, p, ignorecase)
                 ELSE 0
            ELSE IF a.kind = "end"
            THEN IF p = Len(text) + 1
                 THEN match_from(atoms, k + 1, text, p, ignorecase)
                 ELSE 0
            ELSE IF a.kind = "not_kept"
            THEN IF p <= Len(text) /\ not_kept_char(text[p])
                 THEN match_from(atoms, k + 1, text, p + 1, ignorecase)
                 ELSE 0
            ELSE IF /\ p <= Len(text)
                    /\ \/ text[p] = a.ch
                       \/ ignorecase /\ lower_char(text[p]) = lower_char(a.ch)
                 THEN match_from(atoms, k + 1, text, p + 1, ignorecase)
                 ELSE 0

\* re.sub from position p on: leftmost matches, not overlapping, each
\* replaced; ends[q] is the position after the match that starts at q
RECURSIVE sub_from(_, _, _, _)
sub_from(ends, repl, text, p) ==
    IF p > Len(text) THEN <<>>
    ELSE IF ends[p] > p
    THEN repl \o sub_from(ends, repl, text, ends[p])
    ELSE <<text[p]>> \o sub_from(ends, repl, text, p + 1)

\* re.sub(pattern, repl, text, flags=re.IGNORECASE if ignorecase), the
\* pattern compiled
re_sub(atoms, repl, text, ignorecase) ==
    Let(text, LAMBDA t :
        Let([q \in 1..Len(t) |-> match_from(atoms, 1, t, q, ignorecase)],
            LAMBDA ends : sub_from(ends, Chars(repl), t, 1)))

\* a list of regular expressions, compiled
compile_each(patterns) ==
    [k \in 1..Len(patterns) |-> compile(Chars(patterns[k]))]

\* the regular expressions of youtube_suffixes
youtube_suffixes ==
    compile_each(<<
       "\\s*-\\s*Topic$",
       "\\s*VEVO$",
       "\\s*Records$",
       "\\s*Music$",
       "\\s*Official$" >>)

\* title_cleanups[:13]: a qualifier at the end of the text
end_patterns ==
    compile_each(<<
       "\\s*\\(Official Video\\)$",
       "\\s*\\(Official Audio\\)$",
       "\\s*\\(Official Music Video\\)$",
       "\\s*\\(Lyric Video\\)$",
       "\\s*\\(Lyrics\\)$",
       "\\s*\\[Official Video\\]$",
       "\\s*\\[Official Audio\\]$",
       "\\s*\\[Lyric Video\\]$",
       "\\s*\\[Lyrics\\]$",
       "\\s*\\(HD\\)$",
       "\\s*\\[HD\\]$",
       "\\s*\\(4K\\)$",
       "\\s*\\[4K\\]$" >>)

\* title_cleanups[13:]: a qualifier followed by more text
middle_patterns ==
    compile_each(<<
       "\\s*\\(Official Video\\)\\s+",
       "\\s*\\(Official Audio\\)\\s+",
       "\\s*\\(Official Music Video\\)\\s+",
       "\\s*\\(Lyric Video\\)\\s+",
       "\\s*\\(Lyrics\\)\\s+",
       "\\s*\\[Official Video\\]\\s+",
       "\\s*\\[Official Audio\\]\\s+",
       "\\s*\\[Lyric Video\\]\\s+",
       "\\s*\\[Lyrics\\]\\s+",
       "\\s*\\(HD\\)\\s+",
       "\\s*\\[HD\\]\\s+",
       "\\s*\\(4K\\)\\s+",
       "\\s*\\[4K\\]\\s+" >>)

\* the regular expressions of featuring_patterns
featuring_patterns ==
    compile_each(<<
       "\\s*\\bfeaturing\\b\\s*",
       "\\s*\\bfeat\\.\\s*",
       "\\s*\\bfeat\\b\\s*",
       "\\s*\\bft\\.\\s*",
       "\\s*\\bft\\b\\s*",
       "\\s*\\bwith\\b\\s*",
       "\\s*\\bx\\b\\s*",
       "\\s*\\bversus\\b\\s*",
       "\\s*\\bvs\\.\\s*",
       "\\s*\\bvs\\b\\s*",
       "\\s*\\band\\b\\s*",
       "\\s*&\\s*" >>)

\* a list of (pattern, replacement) pairs, the patterns compiled
version_pairs(pairs) ==
    [k \in 1..Len(pairs) |-> <<compile(Chars(pairs[k][1])), pairs[k][2]>>]

\* version_patterns: (pattern, replacement)
version_patterns ==
    version_pairs(<<
       <<"\\s*\\(Radio Edit\\)", " (Radio Edit)">>,
       <<"\\s*\\(Extended Mix\\)", " (Extended Mix)">>,
       <<"\\s*\\(Club Mix\\)", " (Club Mix)">>,
       <<"\\s*\\(Original Mix\\)", "">>,
       <<"\\s*\\(Remix\\)", " (Remix)">>,
       <<"\\s*\\(Remaster\\)", " (Remaster)">>,
       <<"\\s*\\(Remastered\\)", " (Remastered)">>,
       <<"\\s*\\(Deluxe Edition\\)", " (Deluxe Edition)">>,
       <<"\\s*\\(Deluxe Version\\)", " (Deluxe Edition)">>,
       <<"\\s*\\(Acoustic\\)", " (Acoustic)">>,
       <<"\\s*\\(Live\\)", " (Live)">>,
       <<"\\s*\\(Instrumental\\)", " (Instrumental)">> >>)


\* for pattern in patterns[k..]: text = re.sub(pattern, repl, text,
\* flags=re.IGNORECASE)
RECURSIVE sub_each(_, _, _, _)
sub_each(patterns, k, repl, text) ==
    IF k > Len(patterns) THEN text
    ELSE Let(re_sub(patterns[k], repl, text, TRUE),
             LAMBDA t : sub_each(patterns, k + 1, repl, t))

\* variant: a qualifier followed by more text is deleted like one at the end
title_cleanups_delete_middle(text) ==
    sub_each(middle_patterns, 1, "", sub_each(end_patterns, 1, "", text))

\* the title cleanups: end patterns are deleted, then middle patterns are
\* replaced by one space
title_cleanups(text) ==
    sub_each(middle_patterns, 1, " ", sub_each(end_patterns, 1, "", text))

clean_youtube_metadata(text, is_artist) ==
    Let(text, LAMBDA t :
        IF t = <<>> THEN <<>>
        ELSE IF is_artist
        THEN strip(sub_each(youtube_suffixes, 1, "", strip(t)))
        ELSE strip(title_cleanups(sub_each(youtube_suffixes, 1, "", strip(t)))))

\* r'\s*ft\s+ft\s*' (line 282)
double_ft == compile(Chars("\\s*ft\\s+ft\\s*"))

\* r'\s+' (line 285)
spaces == compile(Chars("\\s+"))

normalize_featuring_artists(text) ==
    Let(text, LAMBDA t :
        IF t = <<>> THEN <<>>
        ELSE strip(re_sub(spaces, " ",
                          re_sub(double_ft, " ft ",
                                 sub_each(featuring_patterns, 1, " ft ", t),
                                 FALSE),
                          FALSE)))

\* for pattern, replacement in version_patterns[k..]
RECURSIVE sub_versions(_, _)
sub_versions(k, text) ==
    IF k > Len(version_patterns) THEN text
    ELSE Let(re_sub(version_patterns[k][1], version_patterns[k][2], text, TRUE),
             LAMBDA t : sub_versions(k + 1, t))

normalize_remix_versions(text) ==
    Let(text, LAMBDA t : IF t = <<>> THEN <<>> ELSE strip(sub_versions(1, t)))

\* str.lower()
lower(text) == [k \in 1..Len(text) |-> lower_char(text[k])]

\* symbol_replacements (lines 337-341), in the order of the dict; the third
\* is spaces
ampersand == compile(Chars("\\b&\\b"))

plus_sign == compile(Chars("\\+"))

\* r'[^\w\s\'-]' (line 348)
not_kept == compile(NotKeptClass)

\* steps 5 and 6 of normalize_text (lines 343-351)
symbol_steps(text) ==
    strip(re_sub(spaces, " ",
          re_sub(not_kept, " ",
          re_sub(spaces, " ",
          re_sub(plus_sign, "and",
          re_sub(ampersand, "and", text, FALSE), FALSE), FALSE), FALSE), FALSE))

normalize_text(text, is_artist) ==
    Let(text, LAMBDA t :
        IF t = <<>> THEN <<>>
        ELSE Let(normalize_featuring_artists(clean_youtube_metadata(t, is_artist)),
                 LAMBDA f :
                   Let(IF is_artist THEN f ELSE normalize_remix_versions(f),
                       LAMBDA v : symbol_steps(strip(lower(v))))))

\* the (cleaned_artist, cleaned_title, cleaned_album) triple
clean_track_metadata(artist, title, album) ==
    [artist |-> normalize_featuring_artists(clean_youtube_metadata(artist, TRUE)),
     title |-> normalize_remix_versions(
                   normalize_featuring_artists(clean_youtube_metadata(title, FALSE))),
     album |-> clean_youtube_metadata(album, FALSE)]

(***************************************************************************)
(* The Last.fm search and find_best_track_match.                           *)
(*                                                                         *)
(* A track of a page of search results carries what the calls on it give:  *)
(* the fuzz.ratio of its normalized name to the search string, its         *)
(* listener count, and whether get_listener_count or the name getters      *)
(* raise.  A response is a failed network call or a page of tracks.        *)
(***************************************************************************)
SearchTrack(similarity, listeners, listeners_raises, name_raises) ==
    [similarity |-> similarity, listeners |-> listeners,
     listeners_raises |-> listeners_raises, name_raises |-> name_raises]

FailedResponse == [fails |-> TRUE, page |-> <<>>]

Response(page) == [fails |-> FALSE, page |-> page]

\* a response with a track whose names can be read
Yielding(response) ==
    \E k \in 1..Len(response.page) : ~response.page[k].name_raises

min(a, b) == IF a < b THEN a ELSE b

\* the (track, similarity) tuples appended in the loop of search_lastfm_tracks,
\* pos being the track's place on the provider's page
scored(page) ==
    [k \in 1..Len(page) |->
        [pos |-> k, similarity |-> page[k].similarity, track |-> page[k]]]

\* tracks_with_scores.sort(key=lambda x: x[1], reverse=True): descending and
\* stable
RECURSIVE sort_by_similarity(_)
sort_by_similarity(seq) ==
    IF seq = <<>> THEN <<>>
    ELSE LET h == Head(seq)
             rest == sort_by_similarity(Tail(seq))
         IN SelectSeq(rest, LAMBDA c : c.similarity > h.similarity)
            \o <<h>>
            \o SelectSeq(rest, LAMBDA c : c.similarity <= h.similarity)

\* the body of the outer try block of search_lastfm_tracks: raises when the
\* search call fails; a track whose processing raises is skipped
search_body(response, limit) ==
    IF response.fails
    THEN [raises |-> TRUE, candidates |-> <<>>]
    ELSE LET page == SubSeq(response.page, 1, min(limit, Len(response.page)))
             tracks_with_scores ==
                 SelectSeq(scored(page), LAMBDA c : ~c.track.name_raises)
         IN [raises |-> FALSE,
             candidates |-> sort_by_similarity(tracks_with_scores)]

\* variant: no outer except clause
search_lastfm_tracks_unhandled(response, limit) == search_body(response, limit)

search_lastfm_tracks(response, limit) ==
    LET b == search_body(response, limit)
    IN IF b.raises
       THEN [raises |-> FALSE, candidates |-> <<>>]
       ELSE b

get_track_popularity(track) ==
    IF track.listeners_raises THEN 0 ELSE track.listeners

\* variant: the best available candidate is used whatever its similarity
survivors_without_floor(candidates) ==
    LET good_candidates ==
            SelectSeq(candidates, LAMBDA c : c.similarity >= GOOD_SIMILARITY)
    IN IF good_candidates # <<>> THEN good_candidates ELSE <<candidates[1]>>

\* good_candidates as it stands after lines 445-456 (candidates is not
\* empty); <<>> when the function returns None there
survivors(candidates) ==
    LET good_candidates ==
            SelectSeq(candidates, LAMBDA c : c.similarity >= GOOD_SIMILARITY)
        best_candidate == candidates[1]
    IN IF good_candidates # <<>>
       THEN good_candidates
       ELSE IF best_candidate.similarity >= REASONABLE_SIMILARITY
       THEN <<best_candidate>>
       ELSE <<>>

\* variant: a candidate whose listener count cannot be read is dropped
with_popularity_dropping_failed(good_candidates) ==
    LET kept == SelectSeq(good_candidates, LAMBDA c : ~c.track.listeners_raises)
    IN [k \in 1..Len(kept) |->
           [pos |-> kept[k].pos, similarity |-> kept[k].similarity,
            track |-> kept[k].track, popularity |-> kept[k].track.listeners]]

\* candidates_with_popularity after the loop of lines 461-473: the append
\* comes before anything in the loop body that could raise
with_popularity(good_candidates) ==
    [k \in 1..Len(good_candidates) |->
        [pos |-> good_candidates[k].pos,
         similarity |-> good_candidates[k].similarity,
         track |-> good_candidates[k].track,
         popularity |-> get_track_popularity(good_candidates[k].track)]]

RECURSIVE max_popularity_of(_)
max_popularity_of(cwp) ==
    IF cwp = <<>> THEN 0
    ELSE LET m == max_popularity_of(Tail(cwp))
         IN IF Head(cwp).popularity > m THEN Head(cwp).popularity ELSE m

\* variant: the popularity term is left out
weighted_score_similarity_only(similarity, popularity, max_popularity) ==
    7 * similarity * (IF max_popularity > 0 THEN max_popularity ELSE 1)

\* similarity * 0.7 + normalized_popularity * 0.3, in exact arithmetic: the
\* value is scaled by 10 * max_popularity (by 10 when max_popularity is 0),
\* the same factor for every candidate of one call
weighted_score(similarity, popularity, max_popularity) ==
    IF max_popularity > 0
    THEN 7 * similarity * max_popularity + 300 * popularity
    ELSE 7 * similarity

\* variant: a later candidate with an equal score replaces the current best
RECURSIVE select_from_last_wins(_, _, _, _)
select_from_last_wins(cwp, k, best, best_weighted_score) ==
    IF k > Len(cwp) THEN best
    ELSE LET w == weighted_score(cwp[k].similarity, cwp[k].popularity,
                                 max_popularity_of(cwp))
         IN IF w >= best_weighted_score
            THEN select_from_last_wins(cwp, k + 1, k, w)
            ELSE select_from_last_wins(cwp, k + 1, best, best_weighted_score)

\* the selection loop of lines 486-495, from its k-th iteration on
RECURSIVE select_from(_, _, _, _)
select_from(cwp, k, best, best_weighted_score) ==
    IF k > Len(cwp) THEN best
    ELSE LET w == weighted_score(cwp[k].similarity, cwp[k].popularity,
                                 max_popularity_of(cwp))
         IN IF w > best_weighted_score
            THEN select_from(cwp, k + 1, k, w)
            ELSE select_from(cwp, k + 1, best, best_weighted_score)

NoCandidate ==
    [pos |-> 0, similarity |-> 0, track |-> SearchTrack(0, 0, FALSE, FALSE),
     popularity |-> 0]

\* The call as a whole.  first and second are the provider's responses to the
\* first and to the second search call (second is read only if that call is
\* made).  The result records whether the call raised, the match (found =
\* FALSE for None), the (artist, title) of the search calls made, and the
\* locals candidates and candidates_with_popularity.
find_best_track_match(artist, title, original_artist, original_title, first, second) ==
    LET s1 == search_lastfm_tracks(first, SEARCH_LIMIT)
        retry == /\ ~s1.raises
                 /\ s1.candidates = <<>>
                 /\ original_artist # <<>>
                 /\ original_title # <<>>
        s2 == IF retry THEN search_lastfm_tracks(second, SEARCH_LIMIT) ELSE s1
        queries == IF retry
                   THEN << <<artist, title>>, <<original_artist, original_title>> >>
                   ELSE << <<artist, title>> >>
        candidates == s2.candidates
        good_candidates == IF candidates = <<>> THEN <<>> ELSE survivors(candidates)
        cwp == with_popularity(good_candidates)
        none == [raises |-> FALSE, found |-> FALSE, track |-> NoCandidate,
                 queries |-> queries, candidates |-> candidates,
                 selection |-> cwp]
    IN IF s1.raises \/ s2.raises
       THEN [none EXCEPT !.raises = TRUE]
       ELSE IF cwp = <<>>
       THEN none
       ELSE [none EXCEPT !.found = TRUE,
                         !.track = cwp[select_from(cwp, 1, 0, -1)]]

(***************************************************************************)
(* scrobble_track, call by call.                                           *)
(*                                                                         *)
(* A play record as scrobble_track reads it: the names of its artists, its *)
(* title, and its album, which is a dict with a name ("dict"), None        *)
(* ("none") or absent ("missing").                                         *)
(***************************************************************************)
PlayRecord(artists, title, album_kind, album_name) ==
    [artists |-> artists, title |-> title,
     album |-> [kind |-> album_kind, name |-> album_name]]

\* best_track.get_artist().get_name(), get_name() and get_album().get_name()
\* of a track of the search results: the provider's names, told apart by the
\* track's place on the page
lastfm_artist(candidate) == Chars("Artist ") \o IntToStr(candidate.pos)

lastfm_title(candidate) == Chars("Title ") \o IntToStr(candidate.pos)

lastfm_album(candidate) == Chars("Album ") \o IntToStr(candidate.pos)

Submission(artist, title, timestamp, album) ==
    [artist |-> artist, title |-> title, timestamp |-> timestamp, album |-> album]

NoCleaned == [artist |-> <<>>, title |-> <<>>, album |-> <<>>]

\* variant: without a match the original metadata is submitted
scrobble_body_submits_original(track, custom_timestamp, now, first, second, album_of_match, submit_fails) ==
    IF track.artists = <<>> \/ track.album.kind = "none"
    THEN \* IndexError at line 510, AttributeError at line 512
         [raises |-> TRUE, returned |-> FALSE, submissions |-> <<>>,
          found |-> FALSE, best_track |-> NoCandidate, cleaned |-> NoCleaned]
    ELSE LET original_artist == track.artists[1]
             original_title == track.title
             original_album ==
                 IF track.album.kind = "dict" THEN track.album.name ELSE <<>>
             timestamp == scrobble_timestamp(custom_timestamp, now)
         IN Let(clean_track_metadata(original_artist, original_title, original_album),
                LAMBDA cleaned :
            Let(find_best_track_match(cleaned.artist, cleaned.title,
                                      original_artist, original_title,
                                      first, second),
                LAMBDA m :
                [raises |-> m.raises \/ submit_fails,
                 returned |-> ~(m.raises \/ submit_fails),
                 submissions |->
                     IF m.raises THEN <<>>
                     ELSE IF m.found
                     THEN <<Submission(lastfm_artist(m.track),
                                       lastfm_title(m.track), timestamp,
                                       IF album_of_match = "name"
                                       THEN lastfm_album(m.track)
                                       ELSE cleaned.album)>>
                     ELSE <<Submission(original_artist, original_title,
                                       timestamp, original_album)>>,
                 found |-> m.found, best_track |-> m.track,
                 cleaned |-> cleaned]))

\* The body of the try block (lines 509-553) for one planned record.  first
\* and second are the search provider's responses, album_of_match says
\* whether the matched track gives an album name ("name"), none ("none") or
\* raises ("raises"), submit_fails whether network.scrobble raises.  The
\* result records whether the body raises, what it returns, the
\* network.scrobble calls made, and the locals best_track and cleaned_*.
scrobble_body(track, custom_timestamp, now, first, second, album_of_match, submit_fails) ==
    IF track.artists = <<>> \/ track.album.kind = "none"
    THEN \* IndexError at line 510, AttributeError at line 512
         [raises |-> TRUE, returned |-> FALSE, submissions |-> <<>>,
          found |-> FALSE, best_track |-> NoCandidate, cleaned |-> NoCleaned]
    ELSE LET original_artist == track.artists[1]
             original_title == track.title
             original_album ==
                 IF track.album.kind = "dict" THEN track.album.name ELSE <<>>
             timestamp == scrobble_timestamp(custom_timestamp, now)
         IN Let(clean_track_metadata(original_artist, original_title, original_album),
                LAMBDA cleaned :
            Let(find_best_track_match(cleaned.artist, cleaned.title,
                                      original_artist, original_title,
                                      first, second),
                LAMBDA m :
                [raises |-> m.raises \/ submit_fails,
                 returned |-> ~(m.raises \/ submit_fails),
                 submissions |->
                     IF m.raises THEN <<>>
                     ELSE IF m.found
                     THEN <<Submission(lastfm_artist(m.track),
                                       lastfm_title(m.track), timestamp,
                                       IF album_of_match = "name"
                                       THEN lastfm_album(m.track)
                                       ELSE cleaned.album)>>
                     ELSE <<Submission(cleaned.artist, cleaned.title,
                                       timestamp, cleaned.album)>>,
                 found |-> m.found, best_track |-> m.track,
                 cleaned |-> cleaned]))

\* the call as a whole (lines 506-558): an exception of the body is logged
\* and the call returns False
scrobble_track_call(track, custom_timestamp, now, first, second, album_of_match, submit_fails) ==
    Let(scrobble_body(track, custom_timestamp, now, first, second,
                      album_of_match, submit_fails),
        LAMBDA b : IF b.raises
                   THEN [b EXCEPT !.raises = FALSE, !.returned = FALSE]
                   ELSE b)

(***************************************************************************)
(* SpecPure: the pure functions applied to drawn inputs.                   *)
(***************************************************************************)
\* plays recorded in the drawn stores
PurePlays ==
    {[track |-> TrackA,  timestamp |-> NowBase],
     [track |-> TrackA,  timestamp |-> NowBase + 480],
     [track |-> TrackAB, timestamp |-> NowBase],
     [track |-> TrackB,  timestamp |-> NowBase - 1]}

PureStores ==
    {store_of(P) : P \in {Q \in SUBSET PurePlays : Cardinality(Q) <= MaxStore}}

\* proposed timestamps around the required gaps of the tracks (90 s and 240 s)
ProposedTimes ==
    {NowBase + d : d \in {-240, -239, -90, -89, 0, 89, 90, 239, 240}}

\* wall-clock times of a cleanup: around the retention boundary of the plays
PureNows ==
    {NowBase, NowBase + TWO_WEEKS_SECONDS - 1, NowBase + TWO_WEEKS_SECONDS,
     NowBase + TWO_WEEKS_SECONDS + 1}

\* textual durations: every text of at most MaxDurLen characters over a small
\* alphabet, and the texts of the repository's tests
DurationAlphabet == {"0", "2", ":", "x"}

DurationTexts ==
    UNION {[1..n -> DurationAlphabet] : n \in 0..MaxDurLen}
    \cup {<<"3", ":", "3", "0">>, <<"7", ":", "4", "5">>,
          <<"1", ":", "1", "5", ":", "3", "0">>}

\* raw duration_seconds fields: missing (0) or present
RawSeconds == {0, 200}

\* tracks of a page of search results: similarities around both thresholds,
\* listener counts that tie and that do not, a listener count that cannot be
\* read, a track whose name cannot be read
SearchPool ==
    { SearchTrack(59, 20, FALSE, FALSE), SearchTrack(60, 13, FALSE, FALSE),
      SearchTrack(79, 20, FALSE, FALSE), SearchTrack(80, 20, FALSE, FALSE),
      SearchTrack(80, 0, FALSE, FALSE),  SearchTrack(95, 13, FALSE, FALSE),
      SearchTrack(95, 0, TRUE, FALSE),   SearchTrack(95, 20, FALSE, TRUE) }

Pages == UNION {[1..n -> SearchPool] : n \in 0..MaxCands}

FirstResponses == {FailedResponse} \cup {Response(p) : p \in Pages}

\* responses to the second search call
SecondResponses ==
    { FailedResponse, Response(<<>>),
      Response(<<SearchTrack(59, 20, FALSE, FALSE)>>),
      Response(<<SearchTrack(80, 20, FALSE, FALSE)>>),
      Response(<<SearchTrack(60, 13, FALSE, FALSE),
                 SearchTrack(95, 0, TRUE, FALSE)>>) }

CleanedArtist == <<"A">>

CleanedTitle == <<"T">>

\* the original artist and title handed over with the cleaned ones: none,
\* equal to the cleaned ones, different from them, only the artist
Originals ==
    { << <<>>, <<>> >>,
      << CleanedArtist, CleanedTitle >>,
      << <<"A", " ", "-", " ", "T", "o", "p", "i", "c">>, CleanedTitle >>,
      << <<"A", " ", "-", " ", "T", "o", "p", "i", "c">>, <<>> >> }

MainIdle ==
    /\ clock = NowBase
    /\ file = [status |-> "absent", data |-> EmptyStore]
    /\ history_txt = <<>>
    /\ pc = "idle"
    /\ ytmusic_history = <<>>
    /\ scrobble_history = EmptyStore
    /\ current_time = 0
    /\ decisions = <<>>
    /\ tracks_to_scrobble = <<>>
    /\ i = 0
    /\ calls = <<>>
    /\ submitted = <<>>
    /\ successful_scrobbles = 0
    /\ most_recent_track_id = <<>>
    /\ exit_code = "none"
    /\ file_before = file
    /\ runs = 1
    /\ fetched = "none"
    /\ previous = NoPrevious

InitPure == MainIdle /\ PureIdle

ApplyCanScrobble ==
    /\ fn = "none"
    /\ \E track \in Tracks, t \in ProposedTimes, st \in PureStores :
         /\ fn' = "can_scrobble_track"
         /\ args' = <<track, t, st>>
         /\ result' = can_scrobble_track(track, t, st)
    /\ UNCHANGED mainVars

ApplyCleanup ==
    /\ fn = "none"
    /\ \E st \in PureStores, now \in PureNows :
         /\ fn' = "cleanup_old_history"
         /\ args' = <<st, now>>
         /\ result' = cleanup_old_history(st, now)
    /\ UNCHANGED mainVars

ApplyLookup ==
    /\ fn = "none"
    /\ \E track_id \in TrackIds, st \in PureStores :
         /\ fn' = "get_track_scrobble_timestamps"
         /\ args' = <<track_id, st>>
         /\ result' = get_track_scrobble_timestamps(track_id, st)
    /\ UNCHANGED mainVars

ApplyDuration ==
    /\ fn = "none"
    /\ \E text \in DurationTexts, raw \in RawSeconds :
         LET track == Track(<<"d">>, "Artist D", "Song D", text, raw)
         IN /\ fn' = "get_track_duration_seconds"
            /\ args' = <<track>>
            /\ result' = get_track_duration_call(track)
    /\ UNCHANGED mainVars

\* the second response is drawn only when the first leaves no candidate
ApplyMatch ==
    /\ fn = "none"
    /\ \E o \in Originals, first \in FirstResponses, second \in SecondResponses :
         /\ Yielding(first) => second = FailedResponse
         /\ fn' = "find_best_track_match"
         /\ args' = <<CleanedArtist, CleanedTitle, o[1], o[2], first, second>>
         /\ result' = find_best_track_match(CleanedArtist, CleanedTitle,
                                            o[1], o[2], first, second)
    /\ UNCHANGED mainVars

NextPure ==
    \/ ApplyCanScrobble
    \/ ApplyCleanup
    \/ ApplyLookup
    \/ ApplyDuration
    \/ ApplyMatch

SpecPure == InitPure /\ [][NextPure]_vars

(***************************************************************************)
(* SpecScrobble: scrobble_track applied to drawn play records, against a   *)
(* drawn search provider and submission sink.                              *)
(***************************************************************************)
\* play records: metadata the cleanup changes, metadata it leaves alone, a
\* record without artists, a record whose album is None
PlayRecords ==
    { PlayRecord(<<Chars("Ab - Topic")>>, Chars("So (HD)"), "dict", Chars("Al (4K)")),
      PlayRecord(<<Chars("A feat. B")>>, Chars("S (Original Mix)"), "missing", <<>>),
      PlayRecord(<<Chars("A")>>, Chars("S"), "dict", Chars("L")),
      PlayRecord(<<>>, Chars("S"), "missing", <<>>),
      PlayRecord(<<Chars("A")>>, Chars("S (HD)"), "none", <<>>) }

\* the provider's responses to the first search call
ScrobbleFirstResponses ==
    { FailedResponse, Response(<<>>),
      Response(<<SearchTrack(59, 20, FALSE, FALSE)>>),
      Response(<<SearchTrack(80, 20, FALSE, FALSE)>>),
      Response(<<SearchTrack(60, 13, FALSE, FALSE),
                 SearchTrack(95, 0, TRUE, FALSE)>>) }

\* and to the second one
ScrobbleSecondResponses ==
    { FailedResponse, Response(<<SearchTrack(80, 20, FALSE, FALSE)>>) }

\* custom_timestamp: None (0) or a proposed timestamp
CustomTimestamps == {0, NowBase - SPACING_SECONDS}

\* the second response and the album of the match are drawn only where the
\* call reads them
ApplyScrobbleTrack ==
    /\ fn = "none"
    /\ \E track \in PlayRecords, custom_timestamp \in CustomTimestamps,
          first \in ScrobbleFirstResponses, second \in ScrobbleSecondResponses,
          album_of_match \in {"name", "none", "raises"},
          submit_fails \in BOOLEAN :
         /\ Yielding(first) => second = FailedResponse
         /\ (~Yielding(first) /\ ~Yielding(second)) => album_of_match = "none"
         /\ fn' = "scrobble_track"
         /\ args' = <<track, custom_timestamp, NowBase, first, second,
                      album_of_match, submit_fails>>
         /\ result' = scrobble_track_call(track, custom_timestamp, NowBase,
                                          first, second, album_of_match,
                                          submit_fails)
    /\ UNCHANGED mainVars

NextScrobble == ApplyScrobbleTrack

SpecScrobble == InitPure /\ [][NextScrobble]_vars

(***************************************************************************)
(* SpecText: the metadata cleanup functions applied to drawn texts.        *)
(***************************************************************************)
\* most parts appended to the stem of a drawn text
MaxParts == 2

\* what a drawn title or artist is built from: promotional qualifiers (one
\* in lower case), platform suffixes (one in lower case), a featuring clause
QualifierParts == << " (Official Video)", " [HD]", " (4K)", " (lyrics)" >>

SuffixParts == << " VEVO", " Music", " - topic" >>

FeaturingPart == " feat. B"

TextParts == QualifierParts \o SuffixParts \o <<FeaturingPart>>

TextStem == Chars("Song")

\* the parts, in the order chosen, one after the other
RECURSIVE join_parts(_)
join_parts(choice) ==
    IF choice = <<>> THEN <<>>
    ELSE Chars(TextParts[Head(choice)]) \o join_parts(Tail(choice))

PartChoices == UNION {[1..n -> 1..Len(TextParts)] : n \in 0..MaxParts}

CleanupTexts == {<<>>} \cup {TextStem \o join_parts(c) : c \in PartChoices}

\* clean_youtube_metadata applied once, and again to its own result
ApplyCleanYoutube ==
    /\ fn = "none"
    /\ \E text \in CleanupTexts, is_artist \in BOOLEAN :
         /\ fn' = "clean_youtube_metadata"
         /\ args' = <<text, is_artist>>
         /\ result' =
               Let(clean_youtube_metadata(text, is_artist), LAMBDA once :
                   [once |-> once,
                    twice |-> clean_youtube_metadata(once, is_artist)])
    /\ UNCHANGED mainVars

\* most consecutive collaboration markers in a drawn text
MaxMarkers == 3

\* collaboration markers normalize_featuring_artists rewrites
Markers == << " ft", " feat.", " &", " x" >>

RECURSIVE join_markers(_)
join_markers(choice) ==
    IF choice = <<>> THEN <<>>
    ELSE Chars(Markers[Head(choice)]) \o join_markers(Tail(choice))

\* "A", some markers, " B"
FeaturingTexts ==
    {<<>>} \cup
    { Chars("A") \o join_markers(c) \o Chars(" B") :
        c \in UNION {[1..n -> 1..Len(Markers)] : n \in 0..MaxMarkers} }

ApplyFeaturing ==
    /\ fn = "none"
    /\ \E text \in FeaturingTexts :
         /\ fn' = "normalize_featuring_artists"
         /\ args' = <<text>>
         /\ result' = normalize_featuring_artists(text)
    /\ UNCHANGED mainVars

\* the words on both sides of a drawn conjunction
Words == {"Tom", "Jerry", "AC", "DC (Live)", "R'n'B"}

\* with or without spaces around the sign
Spacings == {"", " "}

\* normalize_text applied to "L & R", to "L + R" and to "L and R"
ApplyNormalizeText ==
    /\ fn = "none"
    /\ \E left \in Words, right \in Words, sp \in Spacings, is_artist \in BOOLEAN :
         /\ fn' = "normalize_text"
         /\ args' = <<Chars(left), Chars(sp), Chars(right), is_artist>>
         /\ result' =
               [ampersand |-> normalize_text(
                    Chars(left) \o Chars(sp) \o <<"&">> \o Chars(sp) \o Chars(right),
                    is_artist),
                plus |-> normalize_text(
                    Chars(left) \o Chars(sp) \o <<"+">> \o Chars(sp) \o Chars(right),
                    is_artist),
                word |-> normalize_text(
                    Chars(left) \o Chars(" and ") \o Chars(right), is_artist)]
    /\ UNCHANGED mainVars

NextText ==
    \/ ApplyCleanYoutube
    \/ ApplyFeaturing
    \/ ApplyNormalizeText

SpecText == InitPure /\ [][NextText]_vars

(***************************************************************************)
(* SpecManager: the 'cleanup' command of history_manager.py run once       *)
(* against a drawn store file at a drawn time.                             *)
(***************************************************************************)
\* history_manager.load_history: there is no except clause, so a file that
\* cannot be opened or parsed ends the command with the exception
load_history(f) ==
    IF f.status = "absent" THEN [raises |-> FALSE, value |-> EmptyStore]
    ELSE IF f.status = "valid" THEN [raises |-> FALSE, value |-> f.data]
    ELSE [raises |-> TRUE, value |-> EmptyStore]

\* history_manager.save_history
save_history(history) == [status |-> "valid", data |-> history]

\* variant: the old entries are dropped from the result in a dry run too
cleanup_old_ignores_dry_run(history, dry_run, now) ==
    LET cutoff_time == now - TWO_WEEKS_SECONDS
        kept == {k \in DOMAIN history : history[k].scrobbled_at >= cutoff_time}
    IN [k \in kept |-> history[k]]

\* history_manager.cleanup_old at wall-clock time now
cleanup_old(history, dry_run, now) ==
    LET cutoff_time == now - TWO_WEEKS_SECONDS
        kept == {k \in DOMAIN history : history[k].scrobbled_at >= cutoff_time}
        old_tracks == DOMAIN history \ kept
        cleaned_history == [k \in kept |-> history[k]]
    IN IF old_tracks = {} THEN history
       ELSE IF dry_run THEN history
       ELSE cleaned_history

\* history_manager.main for the command 'cleanup' (lines 236-242): the file
\* it leaves, what cleanup_old returned, whether save_history was called
cleanup_command(f, force, now) ==
    LET call == load_history(f)
        history == call.value
        cleaned_history == cleanup_old(history, ~force, now)
        saves == force /\ cleaned_history # history
    IN IF call.raises
       THEN [file |-> f, raises |-> TRUE, returned |-> EmptyStore,
             saved |-> FALSE]
       ELSE [file |-> IF saves THEN save_history(cleaned_history) ELSE f,
             raises |-> FALSE, returned |-> cleaned_history, saved |-> saves]

\* the store file the command finds
ManagerFiles ==
    {[status |-> "valid", data |-> st] : st \in PureStores}
    \cup {[status |-> "absent", data |-> EmptyStore],
          [status |-> "unreadable", data |-> EmptyStore],
          [status |-> "corrupt", data |-> EmptyStore]}

InitManager ==
    /\ clock \in PureNows
    /\ file \in ManagerFiles
    /\ history_txt = <<>>
    /\ pc = "idle"
    /\ ytmusic_history = <<>>
    /\ scrobble_history = EmptyStore
    /\ current_time = 0
    /\ decisions = <<>>
    /\ tracks_to_scrobble = <<>>
    /\ i = 0
    /\ calls = <<>>
    /\ submitted = <<>>
    /\ successful_scrobbles = 0
    /\ most_recent_track_id = <<>>
    /\ exit_code = "none"
    /\ file_before = file
    /\ runs = 1
    /\ fetched = "none"
    /\ previous = NoPrevious
    /\ PureIdle

\* python history_manager.py cleanup [--force]
ManagerCleanup ==
    /\ fn = "none"
    /\ \E force \in BOOLEAN :
         LET c == cleanup_command(file, force, clock)
         IN /\ fn' = "cleanup"
            /\ args' = <<force>>
            /\ result' = [raises |-> c.raises, returned |-> c.returned,
                          saved |-> c.saved]
            /\ file' = c.file
    /\ UNCHANGED <<clock, history_txt, pc, ytmusic_history, scrobble_history,
                   current_time, decisions, tracks_to_scrobble, i, calls,
                   submitted, successful_scrobbles, most_recent_track_id,
                   exit_code, file_before, runs, fetched, previous>>

NextManager == ManagerCleanup

SpecManager == InitManager /\ [][NextManager]_vars

(***************************************************************************)
(* Properties of the planning step.                                        *)
(***************************************************************************)
\* C1: within one run of find_tracks_to_scrobble, a timestamp accepted earlier
\* in the run counts as a prior timestamp of the same track id: when the same
\* track id occurs at two positions whose proposed timestamps differ by less
\* than duration + 30 seconds and the earlier one is accepted, the later one
\* is rejected.
C1_AcceptedThisRunCountsAsPrior ==
    \A p \in 1..Len(decisions) : \A q \in 1..Len(decisions) :
        ( /\ p < q
          /\ decisions[p].track.videoId = decisions[q].track.videoId
          /\ abs(decisions[q].proposed_timestamp - decisions[p].proposed_timestamp)
                 < get_track_duration_seconds(decisions[q].track) + 30
          /\ decisions[p].can_scrobble )
        => ~decisions[q].can_scrobble

\* C2: can_scrobble_track accepts a proposed timestamp t for a track of
\* duration D exactly when every prior timestamp p of the track has
\* |t - p| >= D + 30: no prior timestamps always accepts, a gap of exactly
\* D + 30 accepts, a gap of D + 29 rejects, and one violating prior timestamp,
\* before or after t, rejects.
C2_GapRule ==
    fn = "can_scrobble_track" =>
        LET track == args[1]
            t == args[2]
            prior == get_track_scrobble_timestamps(track.videoId, args[3])
            D == get_track_duration_seconds(track)
        IN /\ result.can <=>
                  \A k \in 1..Len(prior) :
                      (t - prior[k] >= D + 30) \/ (prior[k] - t >= D + 30)
           /\ prior = <<>> => result.can
           /\ (\E k \in 1..Len(prior) : t - prior[k] = D + 29) => ~result.can
           /\ (\E k \in 1..Len(prior) : prior[k] - t = D + 29) => ~result.can
           /\ (Len(prior) = 1 /\ abs(t - prior[1]) = D + 30) => result.can

\* two prior timestamps, the proposal exactly D + 30 after one and before the
\* other, accepted
C2_Witness ==
    /\ fn = "can_scrobble_track"
    /\ result.can
    /\ LET track == args[1]
           prior == get_track_scrobble_timestamps(track.videoId, args[3])
           D == get_track_duration_seconds(track)
       IN /\ Len(prior) = 2
          /\ args[2] - prior[1] = D + 30
          /\ prior[2] - args[2] = D + 30

\* C3: for a source history of length N given newest first, the record at
\* 0-based index idx of the reversed sequence is proposed the timestamp
\* now - (N - idx - 1) * 120: the newest record gets now, the oldest
\* now - (N - 1) * 120.
C3_ProposedTimestamps ==
    pc \in {"loop", "finish", "done"} =>
        LET N == Len(ytmusic_history)
        IN /\ Len(decisions) = N
           /\ \A idx \in 0..(N - 1) :
                 /\ decisions[idx + 1].track = ytmusic_history[N - idx]
                 /\ decisions[idx + 1].proposed_timestamp
                        = current_time - (N - idx - 1) * 120
           /\ N > 0 =>
                 /\ decisions[N].track = ytmusic_history[1]
                 /\ decisions[N].proposed_timestamp = current_time
                 /\ decisions[1].track = ytmusic_history[N]
                 /\ decisions[1].proposed_timestamp = current_time - (N - 1) * 120

\* a history of two records has been planned
C3_Witness ==
    /\ pc = "loop"
    /\ Len(ytmusic_history) >= 2
    /\ ytmusic_history[1] # ytmusic_history[2]
    /\ decisions[1].proposed_timestamp = current_time - 120
    /\ decisions[Len(decisions)].proposed_timestamp = current_time

\* C4: the plan is an order-preserving subsequence of the oldest-first source
\* history, and the timestamps are strictly increasing along the plan.
C4_PlanIsOrderedSubsequence ==
    LET N == Len(ytmusic_history)
        M == Len(tracks_to_scrobble)
    IN /\ \A p \in 1..M : \A q \in 1..M :
              p < q => tracks_to_scrobble[p].timestamp
                           < tracks_to_scrobble[q].timestamp
       /\ \E f \in [1..M -> 1..N] :
              /\ \A p \in 1..M : \A q \in 1..M : p < q => f[p] < f[q]
              /\ \A p \in 1..M :
                    /\ tracks_to_scrobble[p].track = ytmusic_history[N + 1 - f[p]]
                    /\ tracks_to_scrobble[p].timestamp
                           = current_time - (N - f[p]) * 120

\* a plan of two different tracks
C4_Witness ==
    /\ pc = "loop"
    /\ Len(tracks_to_scrobble) = 2
    /\ tracks_to_scrobble[1].track # tracks_to_scrobble[2].track
    /\ tracks_to_scrobble[1].timestamp < tracks_to_scrobble[2].timestamp

(***************************************************************************)
(* Properties of the submission loop and of the store.                     *)
(***************************************************************************)
\* the key "{track_id}_{timestamp}" of a scrobble_track call
KeyOfCall(c) == c.track.videoId \o <<"_">> \o IntToStr(c.timestamp)

\* the network accepted the submission of a call
Succeeded(c) == c.outcome \in {"matched", "cleaned"}

\* C5: an entry is appended to the store only for a submission that actually
\* succeeded: every key of the persisted store that was absent before the run
\* is "{track_id}_{timestamp}" of a plan pair whose submission succeeded, and
\* no entry exists for a pair whose submission failed.
C5_OnlySucceededRecorded ==
    LET before == DOMAIN load_scrobble_history(file_before)
        after == DOMAIN load_scrobble_history(file)
    IN /\ \A k \in after \ before :
              \E c \in 1..Len(calls) :
                  Succeeded(calls[c]) /\ KeyOfCall(calls[c]) = k
       /\ \A c \in 1..Len(calls) :
              ~Succeeded(calls[c]) => KeyOfCall(calls[c]) \notin after

\* a finished run in which one submission failed and a later one succeeded
C5_Witness ==
    /\ pc = "done"
    /\ Len(calls) = 2
    /\ ~Succeeded(calls[1])
    /\ Succeeded(calls[2])
    /\ KeyOfCall(calls[2]) \in DOMAIN file.data
    /\ KeyOfCall(calls[1]) \notin DOMAIN file.data

\* C6: a failure while submitting one planned item never aborts the batch:
\* every pair of the plan is attempted exactly once, in plan order, whatever
\* the outcome of the earlier pairs.
C6_EveryPairAttemptedOnce ==
    /\ pc = "loop" =>
          /\ i \in 1..Len(tracks_to_scrobble)
          /\ Len(calls) = i - 1
    /\ pc \in {"finish", "done"} => Len(calls) = Len(tracks_to_scrobble)
    /\ \A c \in 1..Len(calls) :
          /\ c <= Len(tracks_to_scrobble)
          /\ calls[c].track = tracks_to_scrobble[c].track
          /\ calls[c].timestamp = tracks_to_scrobble[c].timestamp

\* the first pair failed before or during its submission and the second pair
\* was attempted all the same
C6_Witness ==
    /\ pc = "done"
    /\ Len(tracks_to_scrobble) = 2
    /\ Len(calls) = 2
    /\ calls[1].outcome = "no_submit"
    /\ calls[2].outcome = "submit_fail"

C8_PruneKeepsExactlyTheRecent ==
    fn = "cleanup_old_history" =>
        LET st == args[1]
            now == args[2]
        IN /\ DOMAIN result \subseteq DOMAIN st
           /\ \A k \in DOMAIN result : result[k] = st[k]
           /\ \A k \in DOMAIN st :
                  k \in DOMAIN result <=> st[k].scrobbled_at >= now - 14 * 86400
           /\ \A k \in DOMAIN st :
                  /\ st[k].scrobbled_at = now - 14 * 86400 => k \in DOMAIN result
                  /\ st[k].scrobbled_at = now - 14 * 86400 - 1
                         => k \notin DOMAIN result

\* a prune pass over an entry exactly at the cutoff and one a second older
C8_Witness ==
    /\ fn = "cleanup_old_history"
    /\ \E k \in DOMAIN args[1] :
          /\ args[1][k].scrobbled_at = args[2] - 14 * 86400
          /\ k \in DOMAIN result
    /\ \E k \in DOMAIN args[1] :
          /\ args[1][k].scrobbled_at = args[2] - 14 * 86400 - 1
          /\ k \notin DOMAIN result

\* C9: whenever add_to_scrobble_history appends an entry, its key
\* "{track_id}_{timestamp}" is absent from the store immediately before the
\* append: no append overwrites an entry, also for repeated plays of a track.
C9_AppendNeverOverwrites ==
    [][ ( /\ Len(calls') = Len(calls) + 1
          /\ calls'[Len(calls')].result )
        => KeyOfCall(calls'[Len(calls')])
               \notin DOMAIN load_scrobble_history(file) ]_vars

\* a repeated play of a track was appended beside the entry of its earlier play
C9_Witness ==
    /\ calls # <<>>
    /\ calls[Len(calls)].result
    /\ \E k \in DOMAIN file.data :
          /\ k # KeyOfCall(calls[Len(calls)])
          /\ file.data[k].youtube_url
                 = file.data[KeyOfCall(calls[Len(calls)])].youtube_url

\* the scrobbled_at values, ascending, of the entries recorded for a track id
RecordedFor(track_id, st) ==
    sorted_timestamps(st,
        {k \in DOMAIN st : st[k].youtube_url = UrlPrefix \o track_id})

\* C10: get_track_scrobble_timestamps(track_id, store) returns, sorted
\* ascending, exactly the scrobbled_at values of the entries recorded for
\* that track id, and never a timestamp of an entry recorded for another
\* track id.
C10_LookupReturnsOnlyThatTrack ==
    fn = "get_track_scrobble_timestamps" =>
        result = RecordedFor(args[1], args[2])

(***************************************************************************)
(* Properties of get_track_duration_seconds.                               *)
(***************************************************************************)
\* the positions of the colons of a text
Colons(t) == {k \in 1..Len(t) : t[k] = ":"}

\* C11: get_track_duration_seconds returns 3600*H + 60*M + S for a textual
\* duration "H:MM:SS" and 60*M + S for "M:SS" (components non-negative
\* integers); when no usable textual duration is present (the text is missing
\* or empty, or has neither two nor three components) it returns the raw
\* duration_seconds field; when neither is present it returns 210.
C11_DurationValue ==
    fn = "get_track_duration_seconds" =>
        LET t == args[1].duration
            raw == args[1].duration_seconds
            c1 == CHOOSE k \in Colons(t) : \A j \in Colons(t) : k <= j
            c2 == CHOOSE k \in Colons(t) : \A j \in Colons(t) : k >= j
        IN /\ ( /\ Cardinality(Colons(t)) = 1
                /\ int_ok(SubSeq(t, 1, c1 - 1))
                /\ int_ok(SubSeq(t, c1 + 1, Len(t))) )
              => result.value = 60 * int_value(SubSeq(t, 1, c1 - 1))
                                + int_value(SubSeq(t, c1 + 1, Len(t)))
           /\ ( /\ Cardinality(Colons(t)) = 2
                /\ int_ok(SubSeq(t, 1, c1 - 1))
                /\ int_ok(SubSeq(t, c1 + 1, c2 - 1))
                /\ int_ok(SubSeq(t, c2 + 1, Len(t))) )
              => result.value = 3600 * int_value(SubSeq(t, 1, c1 - 1))
                                + 60 * int_value(SubSeq(t, c1 + 1, c2 - 1))
                                + int_value(SubSeq(t, c2 + 1, Len(t)))
           /\ (Cardinality(Colons(t)) \notin {1, 2} /\ raw # 0)
              => result.value = raw
           /\ (Cardinality(Colons(t)) \notin {1, 2} /\ raw = 0)
              => result.value = 210

\* "1:15:30" gives 4530 seconds although a raw field is present
C11_Witness ==
    /\ fn = "get_track_duration_seconds"
    /\ args[1].duration = <<"1", ":", "1", "5", ":", "3", "0">>
    /\ args[1].duration_seconds = 200
    /\ result.value = 4530

\* C12: get_track_duration_seconds never raises: when parsing the textual
\* duration fails (a component is not an integer) or no duration information
\* exists, it returns the default 210 seconds.
C12_DurationNeverRaises ==
    fn = "get_track_duration_seconds" =>
        LET t == args[1].duration
            parts == split(t, ":")
        IN /\ ~result.raises
           /\ ( /\ Len(parts) \in {2, 3}
                /\ \E k \in 1..Len(parts) : ~int_ok(parts[k]) )
              => result.value = 210
           /\ (t = <<>> /\ args[1].duration_seconds = 0) => result.value = 210

\* a textual duration with a non-integer component, with a raw field present
C12_Witness ==
    /\ fn = "get_track_duration_seconds"
    /\ args[1].duration = <<"x", ":", "2", "0">>
    /\ args[1].duration_seconds = 200
    /\ ~result.raises
    /\ result.value = 210

(***************************************************************************)
(* Properties of find_best_track_match.                                    *)
(***************************************************************************)
MatchCall == fn = "find_best_track_match"

\* the largest popularity in a selection
MaxPop(sel) ==
    CHOOSE m \in {sel[k].popularity : k \in 1..Len(sel)} :
        \A k \in 1..Len(sel) : sel[k].popularity <= m

\* 0.7 * similarity + 0.3 * (popularity / maxPop * 100), times 10 * maxPop
\* (times 10 when maxPop is 0 and the popularity term is 0)
Weighted(c, sel) ==
    IF MaxPop(sel) > 0
    THEN 7 * c.similarity * MaxPop(sel) + 3 * 100 * c.popularity
    ELSE 7 * c.similarity

\* a response that leaves the search with at least one candidate
Yields(response) ==
    /\ ~response.fails
    /\ \E k \in 1..Len(response.page) : ~response.page[k].name_raises

\* both fallback fields are given
FallbackSupplied == args[3] # <<>> /\ args[4] # <<>>

\* C13: the surviving candidates are all candidates with similarity >= 80 if
\* there is one; otherwise only the single highest-similarity candidate if its
\* similarity is >= 60; otherwise there is no survivor and no match.  A
\* returned match never has similarity below 60, and has similarity >= 80
\* whenever some candidate reaches 80.
C13_Survivors ==
    MatchCall =>
        LET c == result.candidates
            sel == result.selection
            good == {k \in 1..Len(c) : c[k].similarity >= 80}
        IN /\ good # {} =>
                /\ Len(sel) = Cardinality(good)
                /\ {sel[j].pos : j \in 1..Len(sel)} = {c[k].pos : k \in good}
           /\ (good = {} /\ \E k \in 1..Len(c) : c[k].similarity >= 60) =>
                /\ Len(sel) = 1
                /\ \E k \in 1..Len(c) : c[k].pos = sel[1].pos
                /\ \A k \in 1..Len(c) : c[k].similarity <= sel[1].similarity
           /\ (\A k \in 1..Len(c) : c[k].similarity < 60) =>
                sel = <<>> /\ ~result.found
           /\ result.found => result.track.similarity >= 60
           /\ (result.found /\ good # {}) => result.track.similarity >= 80

\* the last resort: no candidate reaches 80 and the best one, at 60, is used
C13_Witness ==
    /\ MatchCall
    /\ Len(result.candidates) >= 2
    /\ \E k \in 1..Len(result.candidates) : result.candidates[k].similarity = 59
    /\ Len(result.selection) = 1
    /\ result.found
    /\ result.track.similarity = 60

\* C14: whenever there is a survivor the result is a survivor whose weighted
\* score 0.7 * similarity + 0.3 * (popularity / maxPopularity * 100) is
\* maximal among the survivors; when every survivor has popularity 0 the
\* result is a survivor of highest similarity.
C14_MaximalWeightedScore ==
    MatchCall =>
        LET sel == result.selection
        IN /\ sel # <<>> => result.found
           /\ result.found =>
                /\ \E k \in 1..Len(sel) : sel[k] = result.track
                /\ \A k \in 1..Len(sel) :
                      Weighted(result.track, sel) >= Weighted(sel[k], sel)
                /\ (\A k \in 1..Len(sel) : sel[k].popularity = 0) =>
                      \A k \in 1..Len(sel) :
                          result.track.similarity >= sel[k].similarity

\* popularity decides: a survivor at similarity 80 is returned although one
\* at 95 (with no listeners) is among the survivors
C14_Witness ==
    /\ MatchCall
    /\ result.found
    /\ result.track.similarity = 80
    /\ \E k \in 1..Len(result.selection) :
          /\ result.selection[k].similarity = 95
          /\ result.selection[k].popularity = 0

\* C15 as stated: among the survivors that share the highest weighted score
\* the result is the one that comes first on the page the search provider
\* returned.
C15_TieFirstInProviderOrder ==
    (MatchCall /\ result.found) =>
        \A k \in 1..Len(result.selection) :
            Weighted(result.selection[k], result.selection)
                = Weighted(result.track, result.selection)
            => result.track.pos <= result.selection[k].pos

\* C15, amended: among the survivors that share the highest weighted score
\* the result is the first in the order of the candidate list, which is by
\* descending similarity and, for equal similarity, the order of the
\* provider's page.
C15_TieFirstInSimilarityOrder ==
    (MatchCall /\ result.found) =>
        \A k \in 1..Len(result.selection) :
            Weighted(result.selection[k], result.selection)
                = Weighted(result.track, result.selection)
            => \/ result.track.similarity > result.selection[k].similarity
               \/ /\ result.track.similarity = result.selection[k].similarity
                  /\ result.track.pos <= result.selection[k].pos

\* a tie between survivors of different similarity, the one returned coming
\* later on the provider's page
C15_Witness ==
    /\ MatchCall
    /\ result.found
    /\ \E k \in 1..Len(result.selection) :
          /\ Weighted(result.selection[k], result.selection)
                = Weighted(result.track, result.selection)
          /\ result.selection[k].pos < result.track.pos
          /\ result.selection[k].similarity < result.track.similarity

\* C16: a candidate that passes the filter and whose listener count cannot
\* be read stays in the selection, with popularity 0, and the call goes on to
\* return a match.
C16_PopularityFailureKeepsCandidate ==
    MatchCall =>
        /\ ~result.raises
        /\ \A k \in 1..Len(result.candidates) :
              ( /\ result.candidates[k].similarity >= 80
                /\ result.candidates[k].track.listeners_raises )
              => /\ \E j \in 1..Len(result.selection) :
                       /\ result.selection[j].pos = result.candidates[k].pos
                       /\ result.selection[j].popularity = 0
                 /\ result.found

\* the candidate whose listener count cannot be read is the match
C16_Witness ==
    /\ MatchCall
    /\ result.found
    /\ result.track.track.listeners_raises
    /\ result.track.popularity = 0
    /\ Len(result.selection) >= 2

\* C17 as stated: the call never raises, and the result is None if the first
\* search returns an empty list and no fallback is supplied, or if the search
\* call itself fails.
C17_SearchFailureIsNoMatch ==
    MatchCall =>
        /\ ~result.raises
        /\ ( \/ (args[5] = Response(<<>>) /\ ~FallbackSupplied)
             \/ args[5].fails )
           => ~result.found

\* C17, amended: the call never raises, and the result is None if every
\* search call it makes fails or leaves no candidate: the first one, and the
\* second one when a fallback is supplied.
C17_NoCandidatesIsNoMatch ==
    MatchCall =>
        /\ ~result.raises
        /\ (~Yields(args[5]) /\ (FallbackSupplied => ~Yields(args[6])))
           => ~result.found

\* both search calls fail
C17_Witness ==
    /\ MatchCall
    /\ args[5].fails
    /\ FallbackSupplied
    /\ args[6].fails
    /\ Len(result.queries) = 2
    /\ ~result.raises
    /\ ~result.found

\* C18: a second search call is made, with the fallback artist and title, if
\* and only if the first one left no candidate and the fallback is supplied
\* and differs from the cleaned artist and title; there are never more than
\* two search calls.
C18_SecondQueryIffFallbackDiffers ==
    MatchCall =>
        /\ Len(result.queries) <= 2
        /\ result.queries[1] = <<args[1], args[2]>>
        /\ Len(result.queries) = 2 =>
              result.queries[2] = <<args[3], args[4]>>
        /\ Len(result.queries) = 2
              <=> ( /\ ~Yields(args[5])
                    /\ FallbackSupplied
                    /\ <<args[3], args[4]>> # <<args[1], args[2]>> )

(***************************************************************************)
(* Properties of a run without a source history.                           *)
(***************************************************************************)
\* C20: when get_listening_history returns an empty history or fails, the
\* run makes no scrobble_track call and no submission, leaves the persisted
\* store as it was when the run started, and does not end with sys.exit(1).
C20_NoHistoryIsNothingToReconcile ==
    (pc = "done" /\ fetched \in {"empty", "failed"}) =>
        /\ calls = <<>>
        /\ submitted = <<>>
        /\ file = file_before
        /\ exit_code # "error"

\* a failed fetch in a later run, the store holding what the first run wrote
C20_Witness ==
    /\ pc = "done"
    /\ fetched = "failed"
    /\ runs = 2
    /\ file.status = "valid"
    /\ file.data # EmptyStore
    /\ exit_code = "ok"

(***************************************************************************)
(* Properties of scrobble_track.                                           *)
(***************************************************************************)
ScrobbleCall == fn = "scrobble_track"

\* the album name scrobble_track reads from a play record
AlbumText(track) ==
    IF track.album.kind = "dict" THEN track.album.name ELSE <<>>

\* C19: scrobble_track never raises and calls network.scrobble at most once
\* (exactly once for a record with an artist and an album that is not None):
\* with the artist and title of the match when find_best_track_match returns
\* one, with the artist, title and album clean_track_metadata gives when it
\* returns None; it returns True exactly when that call was made and did not
\* fail.
C19_OneSubmissionMatchedOrCleaned ==
    ScrobbleCall =>
        LET track == args[1]
            subs == result.submissions
        IN /\ ~result.raises
           /\ Len(subs) <= 1
           /\ (track.artists # <<>> /\ track.album.kind # "none") => Len(subs) = 1
           /\ (Len(subs) = 1 /\ result.found) =>
                 /\ subs[1].artist = Chars("Artist ") \o IntToStr(result.best_track.pos)
                 /\ subs[1].title = Chars("Title ") \o IntToStr(result.best_track.pos)
           /\ (Len(subs) = 1 /\ ~result.found) =>
                 \A c \in {clean_track_metadata(track.artists[1], track.title,
                                                 AlbumText(track))} :
                    /\ subs[1].artist = c.artist
                    /\ subs[1].title = c.title
                    /\ subs[1].album = c.album
           /\ result.returned <=> (Len(subs) = 1 /\ ~args[7])

\* no match: the cleaned metadata, which differs from the original, is
\* submitted and the call returns True
C19_Witness ==
    /\ ScrobbleCall
    /\ ~result.found
    /\ Len(result.submissions) = 1
    /\ result.submissions[1].artist = Chars("Ab")
    /\ result.submissions[1].title = Chars("So")
    /\ result.submissions[1].album = Chars("Al")
    /\ args[1].artists[1] = Chars("Ab - Topic")
    /\ result.returned

(***************************************************************************)
(* C21: a run whose source history is not empty but whose plan is (the gap *)
(* rule rejected every record) ends normally: it calls scrobble_track for  *)
(* nothing, nothing reaches Last.fm, no key is added to the persisted      *)
(* store and no entry of it changes, and the exit status is not an error.  *)
(***************************************************************************)
C21_EmptyPlanEndsNormally ==
    (pc = "done" /\ fetched = "history" /\ tracks_to_scrobble = <<>>) =>
        /\ exit_code = "ok"
        /\ calls = <<>>
        /\ submitted = <<>>
        /\ \A k \in DOMAIN file.data :
               /\ file_before.status = "valid"
               /\ k \in DOMAIN file_before.data
               /\ file.data[k] = file_before.data[k]

\* a run over a history of two records, both rejected by the gap rule, is over
C21_Witness ==
    /\ pc = "done"
    /\ fetched = "history"
    /\ Len(ytmusic_history) = 2
    /\ Len(decisions) = 2
    /\ \A k \in 1..2 : ~decisions[k].can_scrobble
    /\ tracks_to_scrobble = <<>>
    /\ exit_code = "ok"

C23_CleanupIsIdempotent ==
    fn = "clean_youtube_metadata" => result.twice = result.once

(***************************************************************************)
(* C24: the text normalize_featuring_artists returns never holds two "ft"  *)
(* tokens next to each other (separated by whitespace only).               *)
(***************************************************************************)
\* the token "ft" stands at position p of text
FtTokenAt(text, p) ==
    /\ p + 1 <= Len(text)
    /\ text[p] = "f" /\ text[p + 1] = "t"
    /\ (p = 1 \/ text[p - 1] \in WhiteSpace)
    /\ (p + 1 = Len(text) \/ text[p + 2] \in WhiteSpace)

\* two "ft" tokens with nothing but whitespace between them
AdjacentFt(text) ==
    \E p \in 1..Len(text), q \in 1..Len(text) :
        /\ FtTokenAt(text, p) /\ FtTokenAt(text, q)
        /\ p + 2 <= q - 1
        /\ \A k \in (p + 2)..(q - 1) : text[k] \in WhiteSpace

C24_NoAdjacentFt ==
    fn = "normalize_featuring_artists" => ~AdjacentFt(result)

(***************************************************************************)
(* C25: for a title, a promotional qualifier that ends the text is deleted *)
(* entirely, and qualifiers followed by more text (a featuring clause) are *)
(* replaced by one separating space, the rest of the title being kept; for *)
(* an artist no qualifier is stripped, and only a platform suffix at the   *)
(* end of the text is removed, whatever its case.                          *)
(***************************************************************************)
IsQualifier(part) == part \in 1..Len(QualifierParts)

IsSuffix(part) ==
    part \in (Len(QualifierParts) + 1)..(Len(QualifierParts) + Len(SuffixParts))

IsFeaturing(part) == part = Len(TextParts)

\* the choice without its last part
Front(choice) == SubSeq(choice, 1, Len(choice) - 1)

\* a title of qualifiers and featuring clauses in which every qualifier ends
\* the text or stands right before a featuring clause
SeparateQualifiers(choice) ==
    /\ \A k \in 1..Len(choice) : ~IsSuffix(choice[k])
    /\ \E k \in 1..Len(choice) : IsQualifier(choice[k])
    /\ \A k \in 1..(Len(choice) - 1) :
           IsQualifier(choice[k]) => IsFeaturing(choice[k + 1])

C26_AmpersandPlusAndAlike ==
    fn = "normalize_text" =>
        /\ result.plus = result.ampersand
        /\ result.word = result.ampersand

(***************************************************************************)
(* C27: the 'cleanup' command without --force leaves the persisted store   *)
(* as it found it: cleanup_old, called with dry_run=True, returns the      *)
(* mapping it was given and save_history is not called.  With --force the  *)
(* store it leaves is the mapping it found without the entries whose       *)
(* scrobbled_at is below now - 14 days, which is the mapping               *)
(* cleanup_old_history keeps.                                              *)
(***************************************************************************)
C27_DryRunKeepsForcePrunes ==
    fn = "cleanup" =>
        LET force == args[1]
            found == IF file_before.status = "valid"
                     THEN file_before.data ELSE EmptyStore
            recent == {k \in DOMAIN found :
                          found[k].scrobbled_at >= clock - TWO_WEEKS_SECONDS}
            left == IF file.status = "valid" THEN file.data ELSE EmptyStore
        IN /\ ~force =>
                /\ file = file_before
                /\ ~result.saved
                /\ ~result.raises => result.returned = found
           /\ (force /\ ~result.raises) =>
                /\ left = [k \in recent |-> found[k]]
                /\ left = cleanup_old_history(found, clock)

\* a dry run over a store that holds an entry older than two weeks and one
\* that is not: both are still in the file
C27_Witness ==
    /\ fn = "cleanup"
    /\ ~args[1]
    /\ file.status = "valid"
    /\ \E k \in DOMAIN file.data :
           file.data[k].scrobbled_at < clock - TWO_WEEKS_SECONDS
    /\ \E k \in DOMAIN file.data :
           file.data[k].scrobbled_at >= clock - TWO_WEEKS_SECONDS
    /\ result.returned = file.data

(***************************************************************************)
(* C28: a play is not counted twice across runs: when a run submitted      *)
(* every record of its plan successfully and the next run, started later,  *)
(* gets the same source history, the later run submits none of the records *)
(* the earlier run submitted.                                              *)
(***************************************************************************)
\* the run on record planned something and every pair of its plan succeeded
PreviousAllSucceeded == previous.recorded /\ previous.all_succeeded

\* the record at position k of the reversed history was submitted in this run
SubmittedNow(k) ==
    \E c \in 1..Len(submitted) :
        /\ submitted[c].track_id = decisions[k].track.videoId
        /\ submitted[c].timestamp = decisions[k].proposed_timestamp

C28_NoDoubleCountAcrossRuns ==
    (PreviousAllSucceeded /\ fetched = "history"
        /\ ytmusic_history = previous.ytmusic_history) =>
        \A k \in 1..Len(decisions) :
            previous.decisions[k].can_scrobble => ~SubmittedNow(k)

(***************************************************************************)
(* C29: a run never loses an unexpired record: every entry the persisted   *)
(* store held before the run whose scrobbled_at is not below now - 14 days *)
(* (now taken when the run is over) is in the persisted store after the    *)
(* run, unchanged, whichever submissions succeed or fail and whichever     *)
(* reads and writes of the store file fail.                                *)
(***************************************************************************)
C29_NoUnexpiredRecordLost ==
    (pc = "done" /\ file_before.status = "valid") =>
        \A k \in DOMAIN file_before.data :
            file_before.data[k].scrobbled_at >= clock - TWO_WEEKS_SECONDS =>
                /\ file.status = "valid"
                /\ k \in DOMAIN file.data
                /\ file.data[k] = file_before.data[k]

(***************************************************************************)
(* C30: for every successfully submitted pair of the plan, the timestamp   *)
(* handed to the submission sink is the timestamp the plan proposed, and   *)
(* the store holds the play under the key ending in that timestamp with    *)
(* that timestamp as scrobbled_at; for every integer timestamp, 0 too.     *)
(* Stated for the pair the loop has just handled.                          *)
(***************************************************************************)
C30_SinkTimestampIsPlanAndStore ==
    (calls # <<>> /\ calls[Len(calls)].result) =>
        \A c \in {calls[Len(calls)]} :
            \A key \in {c.track.videoId \o <<"_">> \o IntToStr(c.timestamp)} :
                /\ submitted # <<>>
                /\ submitted[Len(submitted)].track_id = c.track.videoId
                /\ submitted[Len(submitted)].timestamp = c.timestamp
                /\ file.status = "valid"
                /\ key \in DOMAIN file.data
                /\ file.data[key].scrobbled_at = c.timestamp

====
